---- MODULE Spec2Model ----
(***************************************************************************)
(* Model of the persistence (Storable), caching (FeatureExtractor),        *)
(* sampling (TestCaseCollection) and filtering (FeatureFilter) code of     *)
(* rad_rework.                                                             *)
(*                                                                         *)
(* Python values are tagged pairs <<tag, payload>>:                        *)
(*   <<"int", n>>  <<"str", s>>  <<"bool", b>>  <<"null", 0>>              *)
(*   <<"list", seq>>  <<"tuple", seq>>                                     *)
(*   <<"dict", seq of <<key, value>>>>   (insertion ordered, as in Python) *)
(*   <<"id", text>>   the hex digest (a str) of the JSON text `text`;      *)
(*                    sha3_256 is taken to be collision free               *)
(*   <<"error", name>> a raised exception                                  *)
(* Objects are tagged with their class name.                               *)
(***************************************************************************)
EXTENDS Integers, Sequences, FiniteSets, TLC

VARIABLES
    \* ---- Storable / save / load
    subject,      \* the entity the store operations act on
    dirState,     \* save_dir on disk: "missing", "dir" or "file"
    files,        \* files in save_dir: name -> content
    todo,         \* remaining steps of the running save()
    saveState,    \* "idle", "running", "done" or an exception name
    saveCall,     \* <<create, dirState when save() was called>> of the last save()
    toFile,       \* what subject.to_file(file_path) left at file_path
    loaded,       \* <<how, what from_file / from_dict returned>>
    peer,         \* a second entity, to compare IDs with
    ids           \* <<subject.get_id(), peer.get_id()>> once computed

storeVars == <<subject, dirState, files, todo, saveState, saveCall, toFile, loaded,
               peer, ids>>

VARIABLES
    \* ---- FeatureExtractor
    fe,           \* the FeatureExtractor instance
    dims,         \* test case id -> AnnoFile.get_slice_dimension of its annotation
    execCount,    \* <<config id, test case id>> -> completed extractor.execute calls
    lastExtract,  \* <<test case id, config id, executed, result>> of the last extract
    returned,     \* {<<config id, test case id, value>>} : every value extract returned
    reloadHits,   \* after a reload: test case id -> value the original had cached
    resolved      \* {<<config id, test case id, executed, adaptive with force2D,
                  \*    self.config at the lookup>>} : every extract that returned

cacheVars == <<fe, dims, execCount, lastExtract, returned, reloadHits, resolved>>

VARIABLES
    \* ---- TestCaseCollection sampling
    tcc,          \* the TestCaseCollection
    globalRandom, \* state of the random module's shared generator
    pinned,       \* <<parameters, result>> of a get_equal_sample call
    repeated      \* result of a later call with the pinned parameters

samplerVars == <<tcc, globalRandom, pinned, repeated>>

VARIABLES
    \* ---- FeatureFilter stages
    records,      \* the feature dicts handed to the stage, one per test case
    probe,        \* the prefix the stage was run with, None before the first run
    included,     \* what key_starts_with returned with invert=False
    excluded      \* what key_starts_with returned with invert=True

filterVars == <<records, probe, included, excluded>>

VARIABLES
    \* ---- FeatureFilter objects and filter()
    dataset,      \* the caller's list of feature dicts
    hashOrder,    \* iteration order of sets of str in this process
    stages,       \* <<increase_seed, invert>> -> the random_choice stage object
    outputs,      \* <<increase_seed, invert>> -> <<seed before, result>> per filter() call
    ctor,        \* <<filter_name, how, outcome>> of the last construction
    ctorRun      \* what filter() of the constructed stage gave

stageVars == <<dataset, hashOrder, stages, outputs, ctor, ctorRun>>

VARIABLES
    \* ---- Classifier.classify
    classifier,   \* random_seed of the Classifier
    classified    \* <<"done", arguments, list of rounds or the exception>>

classifyVars == <<classifier, classified>>

VARIABLES
    \* ---- TestCaseCollection.from_csv
    csvFile,      \* the rows of the csv file, each a list of columns
    csvLoad       \* <<"done", skip_invalid, the collection or the exception>>

csvVars == <<csvFile, csvLoad>>

VARIABLES
    \* ---- TestCaseCollection.get_all_but
    complement    \* <<"done", test_case_ids, the list returned or the exception>>

complementVars == <<complement>>

VARIABLES
    \* ---- FeatureExtractor.denumpyify
    raw,          \* what extractor.execute returned
    jsonValue     \* <<"done", denumpyify(raw) or the exception>>

convertVars == <<raw, jsonValue>>

VARIABLES
    \* ---- FeatureFilter.execute_subfilters
    chain,        \* the stage whose subfilters are executed
    merged        \* <<"done", features before, result, features afterwards,
                  \*    the features each subfilter was given, the stage before>>

subfilterVars == <<chain, merged>>

VARIABLES
    \* ---- concurrent save() calls into one save_dir
    savers,       \* saver -> its entity, create, remaining steps and progress
    dirBefore     \* save_dir on disk before any saver started

saverVars == <<savers, dirBefore>>

VARIABLES
    \* ---- the filter calls of Classifier.classify
    roundStage,   \* ff, the stage classify filters with
    roundInput,   \* <<features of the train set, features of the test set>>
    roundLog      \* <<"done", rounds, per round <<train_features, test_features>>
                  \*    as filtered, or the exception>>

roundVars == <<roundStage, roundInput, roundLog>>

restVars == <<complementVars, convertVars, subfilterVars, saverVars, roundVars>>

vars == <<storeVars, cacheVars, samplerVars, filterVars, stageVars, classifyVars, csvVars,
          restVars>>

notStore == <<cacheVars, samplerVars, filterVars, stageVars, classifyVars, csvVars, restVars>>
notCache == <<storeVars, samplerVars, filterVars, stageVars, classifyVars, csvVars, restVars>>
notSampler == <<storeVars, cacheVars, filterVars, stageVars, classifyVars, csvVars, restVars>>
notFilter == <<storeVars, cacheVars, samplerVars, stageVars, classifyVars, csvVars, restVars>>
notStage == <<storeVars, cacheVars, samplerVars, filterVars, classifyVars, csvVars, restVars>>
notClassify == <<storeVars, cacheVars, filterVars, stageVars, csvVars, restVars>>
notCsv == <<storeVars, cacheVars, samplerVars, filterVars, stageVars, classifyVars, restVars>>

----------------------------------------------------------------------------
\* Generic helpers

Tag(v) == v[1]
Val(v) == v[2]
IsErr(v) == Tag(v) = "error"
Err(name) == <<"error", name>>
None == <<"null", 0>>
StrV(s) == <<"str", s>>
IntV(n) == <<"int", n>>
BoolV(b) == <<"bool", b>>
ListV(s) == <<"list", s>>
TupleV(s) == <<"tuple", s>>
DictV(ps) == <<"dict", ps>>

\* first exception raised while producing the elements of s, if any
FirstErr(s) ==
    IF \E i \in 1..Len(s) : IsErr(s[i])
    THEN s[CHOOSE i \in 1..Len(s) : IsErr(s[i]) /\ \A j \in 1..(i-1) : ~IsErr(s[j])]
    ELSE None

HasErr(s) == \E i \in 1..Len(s) : IsErr(s[i])

\* d[key]
DictHas(d, key) == \E i \in 1..Len(Val(d)) : Val(d)[i][1] = key
DictGet(d, key) ==
    IF DictHas(d, key)
    THEN Val(d)[CHOOSE i \in 1..Len(Val(d)) : Val(d)[i][1] = key][2]
    ELSE Err("KeyError")

\* d[key] = value : in place when the key exists, appended otherwise
DictSet(d, key, value) ==
    IF DictHas(d, key)
    THEN DictV([i \in 1..Len(Val(d)) |->
                 IF Val(d)[i][1] = key THEN <<key, value>> ELSE Val(d)[i]])
    ELSE DictV(Append(Val(d), <<key, value>>))

DictKeys(d) == {Val(d)[i][1] : i \in 1..Len(Val(d))}

\* the mapping a dict denotes, whatever the insertion order (Python dict ==)
AsMapping(d) == {<<Val(d)[i][1], Val(d)[i][2]>> : i \in 1..Len(Val(d))}

----------------------------------------------------------------------------
\* json.dumps / json.load

\* lexicographic order of the strings used as keys of sorted dicts
SortedKeyNames == <<"a", "b", "correctMask", "force2D", "force2Ddimension", "setting">>
KeyRank(k) == CHOOSE i \in 1..Len(SortedKeyNames) : SortedKeyNames[i] = Val(k)

RECURSIVE SortPairs(_)
SortPairs(ps) ==
    IF Len(ps) <= 1 THEN ps
    ELSE LET m == CHOOSE i \in 1..Len(ps) :
                    \A j \in 1..Len(ps) : KeyRank(ps[i][1]) <= KeyRank(ps[j][1])
             rest == [i \in 1..(Len(ps) - 1) |-> IF i < m THEN ps[i] ELSE ps[i + 1]]
         IN  <<ps[m]>> \o SortPairs(rest)

\* The JSON document json.dumps(v, sort_keys=sort_keys) writes, as its tree:
\* tuples become arrays, objects keep the order their keys are written in.
RECURSIVE JsonTree(_, _)
JsonTree(v, sort_keys) ==
    CASE Tag(v) \in {"int", "float", "str", "bool", "null", "id"} -> v
      [] Tag(v) = "np.float64" -> <<"float", Val(v)>>    \* a subclass of float
      [] Tag(v) \in {"list", "tuple"} ->
            LET items == [i \in 1..Len(Val(v)) |-> JsonTree(Val(v)[i], sort_keys)]
            IN  IF HasErr(items) THEN FirstErr(items) ELSE ListV(items)
      [] Tag(v) = "dict" ->
            LET ps == IF sort_keys THEN SortPairs(Val(v)) ELSE Val(v)
                items == [i \in 1..Len(ps) |-> JsonTree(ps[i][2], sort_keys)]
            IN  IF HasErr(items) THEN FirstErr(items)
                ELSE DictV([i \in 1..Len(ps) |-> <<ps[i][1], items[i]>>])
      [] Tag(v) = "error" -> v
      [] OTHER -> Err("TypeError")   \* Object of type ... is not JSON serializable

\* (a value bound over a one-element set is computed once and then shared)
json_dumps(v, sort_keys) ==
    CHOOSE text \in {IF IsErr(t) THEN t ELSE <<"json", t>> :
                        t \in {JsonTree(x, sort_keys) : x \in {v}}} : TRUE

\* json.load of a document: objects become dicts in document order, arrays lists
json_load(text) ==
    IF Tag(text) = "json" THEN Val(text) ELSE Err("JSONDecodeError")

\* hashlib.sha3_256(text.encode("utf-8")).hexdigest()
hexdigest(text) == <<"id", Val(text)>>

----------------------------------------------------------------------------
\* Entities.  Payloads:
\*   FeatureFilter        <<filter_name, args, kwargs, subfilters>>
\*   TestCase             <<id, pcr, nar>>
\*   TestCaseCollection   <<test_cases>>           (in insertion order)
\*   FeatureExtractor     <<config, features, force2D_adaptive_axis, settings>>
\*   ClassificationRound  <<train_set, test_set, random_seed, predictions,
\*                          feature_importances>>
\*   Classification       <<tcc, fe, ff, train_set_size, set_size_fractional,
\*                          metric, extractor_config_id, classification_rounds>>

Classes == {"FeatureFilter", "TestCase", "TestCaseCollection", "FeatureExtractor",
            "ClassificationRound", "Classification"}
IsObject(v) == Tag(v) \in Classes

\* the classes whose get_dict_representation declares the by_id parameter
AcceptsById == {"FeatureFilter", "Classification"}

\* FeatureFilter.get_available_filters: the _filter_* methods of the class
AvailableFilters == {"do_nothing", "key_starts_with", "importance_threshold", "random_choice"}

\* mutant: any filter_name is accepted
NewFeatureFilterUnchecked(filter_name, args, subfilters, kwargs) ==
    <<"FeatureFilter", <<filter_name, args, kwargs, subfilters>>>>

\* FeatureFilter.__init__(filter_name, *args, subfilters=None, **kwargs)
NewFeatureFilter(filter_name, args, subfilters, kwargs) ==
    IF filter_name \notin AvailableFilters THEN Err("ValueError")
    ELSE <<"FeatureFilter", <<filter_name, args, kwargs, subfilters>>>>

\* TestCase.get_dict_representation
TestCaseRep(tc) ==
    DictV(<< <<StrV("id"), Val(tc)[1]>>, <<StrV("pcr"), Val(tc)[2]>>,
             <<StrV("nar"), Val(tc)[3]>> >>)

\* get_dict_representation of every class; by_id is "omitted" (the call names no
\* by_id, so the default applies), "true" or "false".
RECURSIVE DictRep(_, _)
RECURSIVE GetId(_)

\* subfilters entry of FeatureFilter.get_dict_representation
SubfilterReps(subfilters, by_id) ==
    [i \in 1..Len(subfilters) |->
        IF ~IsObject(subfilters[i]) THEN Err("AttributeError")
        ELSE IF by_id THEN GetId(subfilters[i])
        ELSE DictRep(subfilters[i], "omitted")]

FeatureFilterRep(e, by_id) ==
    LET subs == SubfilterReps(Val(e)[4], by_id)
    IN  IF HasErr(subs) THEN FirstErr(subs)
        ELSE DictV(<< <<StrV("is_filter"), BoolV(TRUE)>>,
                      <<StrV("filter_name"), StrV(Val(e)[1])>>,
                      <<StrV("subfilters"), ListV(subs)>>,
                      <<StrV("args"), TupleV(Val(e)[2])>>,
                      <<StrV("kwargs"), Val(e)[3]>> >>)

TestCaseCollectionRep(e) ==
    DictV(<< <<StrV("test_cases"),
               ListV([i \in 1..Len(Val(e)[1]) |-> TestCaseRep(Val(e)[1][i])])>> >>)

FeatureExtractorRep(e) ==
    DictV(<< <<StrV("config"), Val(e)[1]>>, <<StrV("features"), Val(e)[2]>> >>)

ClassificationRoundRep(e) ==
    DictV(<< <<StrV("train_set"), Val(e)[1]>>, <<StrV("test_set"), Val(e)[2]>>,
             <<StrV("random_seed"), Val(e)[3]>>, <<StrV("predictions"), Val(e)[4]>>,
             <<StrV("feature_importances"), Val(e)[5]>> >>)

ClassificationRep(e, by_id) ==
    LET p == Val(e)
        dep(x) == IF ~IsObject(x) THEN Err("AttributeError")
                  ELSE IF by_id THEN GetId(x) ELSE DictRep(x, "omitted")
        deps == <<dep(p[1]), dep(p[2]), dep(p[3])>>
        rounds == [i \in 1..Len(p[8]) |->
                      IF ~IsObject(p[8][i]) THEN Err("AttributeError")
                      ELSE DictRep(p[8][i], "omitted")]
    IN  IF HasErr(deps) THEN FirstErr(deps)
        ELSE IF HasErr(rounds) THEN FirstErr(rounds)
        ELSE DictV(<< <<StrV("tcc"), deps[1]>>, <<StrV("fe"), deps[2]>>,
                      <<StrV("ff"), deps[3]>>,
                      <<StrV("classification_rounds"), ListV(rounds)>>,
                      <<StrV("train_set_size"), p[4]>>,
                      <<StrV("metric"), p[6]>>,
                      <<StrV("extractor_config_id"), p[7]>> >>)

DictRep(e, by_id) ==
    IF by_id # "omitted" /\ Tag(e) \notin AcceptsById
    THEN Err("TypeError")    \* got an unexpected keyword argument 'by_id'
    ELSE CASE Tag(e) = "FeatureFilter" -> FeatureFilterRep(e, by_id # "false")
           [] Tag(e) = "Classification" -> ClassificationRep(e, by_id # "false")
           [] Tag(e) = "TestCaseCollection" -> TestCaseCollectionRep(e)
           [] Tag(e) = "FeatureExtractor" -> FeatureExtractorRep(e)
           [] Tag(e) = "ClassificationRound" -> ClassificationRoundRep(e)
           [] Tag(e) = "TestCase" -> TestCaseRep(e)
           [] OTHER -> Err("AttributeError")

\* Storable.get_id: the hash of json.dumps(self.get_dict_representation())
GetId(e) ==
    CHOOSE id \in {IF IsErr(text) THEN text ELSE hexdigest(text) :
                      text \in {json_dumps(rep, FALSE) :
                                  rep \in {DictRep(e, "omitted")}}} : TRUE

\* Python == on values: dicts compare as mappings, sequences element by element
RECURSIVE PyEq(_, _)
PyEq(a, b) ==
    IF Tag(a) # Tag(b) THEN FALSE
    ELSE CASE Tag(a) = "dict" ->
                /\ DictKeys(a) = DictKeys(b)
                /\ \A k \in DictKeys(a) : PyEq(DictGet(a, k), DictGet(b, k))
           [] Tag(a) \in {"list", "tuple"} ->
                /\ Len(Val(a)) = Len(Val(b))
                /\ \A i \in 1..Len(Val(a)) : PyEq(Val(a)[i], Val(b)[i])
           [] OTHER -> a = b

RECURSIVE DictUpdate(_, _)
DictUpdate(d, ps) ==
    IF ps = <<>> THEN d
    ELSE DictUpdate(DictSet(d, ps[1][1], ps[1][2]), Tail(ps))

\* d.pop(key)
DictPop(d, key) ==
    LET keep == {i \in 1..Len(Val(d)) : Val(d)[i][1] # key}
        pos(n) == CHOOSE i \in keep : Cardinality({j \in keep : j < i}) = n - 1
    IN  DictV([n \in 1..Cardinality(keep) |-> Val(d)[pos(n)]])

\* RadiomicsFeatureExtractor().settings before any parameter is loaded
DefaultSettings ==
    DictV(<< <<StrV("force2D"), BoolV(FALSE)>>, <<StrV("force2Ddimension"), IntV(0)>>,
             <<StrV("correctMask"), BoolV(FALSE)>> >>)

\* extractor.loadJSONParams(json.dumps(config)): the settings the extractor holds
LoadedSettings(config) ==
    IF DictHas(config, StrV("setting"))
    THEN DictUpdate(DefaultSettings, Val(DictGet(config, StrV("setting"))))
    ELSE DefaultSettings

\* FeatureExtractor.__init__(config, force2D_adaptive_axis=True)
NewFeatureExtractor(config, force2D_adaptive_axis) ==
    IF IsErr(json_dumps(config, FALSE)) THEN json_dumps(config, FALSE)
    ELSE <<"FeatureExtractor",
           <<config, DictV(<<>>), force2D_adaptive_axis, LoadedSettings(config)>>>>

\* cls.from_dict(dict_representation) of every class
RECURSIVE FromDict(_, _)

FeatureFilterFromDict(d) ==
    LET need == <<DictGet(d, StrV("filter_name")), DictGet(d, StrV("args")),
                  DictGet(d, StrV("subfilters")), DictGet(d, StrV("kwargs"))>>
    IN  IF HasErr(need) THEN FirstErr(need)
        ELSE IF Tag(need[2]) \notin {"list", "tuple"} \/ Tag(need[4]) # "dict"
        THEN Err("TypeError")
        ELSE NewFeatureFilter(Val(need[1]), Val(need[2]),
                              IF Tag(need[3]) = "null" THEN <<>> ELSE Val(need[3]),
                              need[4])

FeatureExtractorFromDict(d) ==
    LET config == DictGet(d, StrV("config"))
        made == IF IsErr(config) THEN config ELSE NewFeatureExtractor(config, TRUE)
        features == DictGet(d, StrV("features"))
    IN  IF IsErr(made) THEN made
        ELSE IF IsErr(features) THEN features
        ELSE <<"FeatureExtractor",
               <<Val(made)[1], features, Val(made)[3], Val(made)[4]>>>>

\* ClassificationRound.from_dict builds the round and returns nothing
ClassificationRoundFromDict(d) ==
    LET need == <<DictGet(d, StrV("train_set")), DictGet(d, StrV("test_set")),
                  DictGet(d, StrV("random_seed")), DictGet(d, StrV("predictions")),
                  DictGet(d, StrV("feature_importances"))>>
    IN  IF HasErr(need) THEN FirstErr(need) ELSE None

ClassificationFromDict(d) ==
    LET sub(cls, key) == IF DictHas(d, StrV(key)) THEN FromDict(cls, DictGet(d, StrV(key)))
                         ELSE Err("KeyError")
        rounds == DictGet(d, StrV("classification_rounds"))
        need == <<sub("TestCaseCollection", "tcc"), sub("FeatureExtractor", "fe"),
                  sub("FeatureFilter", "ff"), DictGet(d, StrV("train_set_size")),
                  DictGet(d, StrV("set_size_fractional")), DictGet(d, StrV("metric")),
                  DictGet(d, StrV("extractor_config_id")), rounds>>
        built == IF IsErr(rounds) THEN <<>>
                 ELSE [i \in 1..Len(Val(rounds)) |->
                          FromDict("ClassificationRound", Val(rounds)[i])]
    IN  IF HasErr(need) THEN FirstErr(need)
        ELSE IF HasErr(built) THEN FirstErr(built)
        ELSE <<"Classification",
               <<need[1], need[2], need[3], need[4], need[5], need[6], need[7], built>>>>

FromDict(cls, d) ==
    CASE cls = "TestCaseCollection" -> Err("TypeError")  \* Storable.from_dict: cls()
      [] Tag(d) # "dict" -> Err("TypeError")             \* indexing a str by a key
      [] cls = "FeatureFilter" -> FeatureFilterFromDict(d)
      [] cls = "FeatureExtractor" -> FeatureExtractorFromDict(d)
      [] cls = "ClassificationRound" -> ClassificationRoundFromDict(d)
      [] cls = "Classification" -> ClassificationFromDict(d)
      [] OTHER -> Err("TypeError")

\* A file holds a complete JSON document <<"json", tree>> or, when the writer
\* raised after opening it, nothing usable.
Truncated == <<"truncated", 0>>
NoFile == <<"nofile", 0>>

\* to_file(file_path): the file's content afterwards
ToFileContent(e) ==
    CHOOSE content \in
        {IF IsErr(text) THEN Truncated ELSE text :
            text \in {json_dumps(rep, FALSE) :
                        rep \in {DictRep(e, IF Tag(e) = "FeatureExtractor"
                                            THEN "omitted" ELSE "false")}}} : TRUE

\* from_file(file_path)
FromFile(cls, content) ==
    IF content = NoFile THEN Err("FileNotFoundError")
    ELSE IF Tag(content) # "json" THEN Err("JSONDecodeError")
    ELSE FromDict(cls, json_load(content))

----------------------------------------------------------------------------
\* Storable.save

\* the entities _save_dependencies saves, in order
Dependencies(e) ==
    CASE Tag(e) = "FeatureFilter" -> Val(e)[4]
      [] Tag(e) = "Classification" -> <<Val(e)[1], Val(e)[2], Val(e)[3]>>
      [] OTHER -> <<>>

RECURSIVE Flatten(_)
Flatten(ss) == IF ss = <<>> THEN <<>> ELSE Head(ss) \o Flatten(Tail(ss))

\* The steps of e.save(save_dir, create), in program order: the directory
\* check, every dependency's save(create=False), then opening and writing
\* the entity's own file.  A step that raises ends the whole save.
RECURSIVE SavePlan(_, _)
\* mutant: the entity's own file is opened before its dependencies are saved
SavePlanOwnerFirst(e, create) ==
    LET deps == Dependencies(e)
    IN  << <<"check", e, create>>, <<"open", e, create>> >>
        \o Flatten([i \in 1..Len(deps) |->
                      IF IsObject(deps[i]) THEN SavePlan(deps[i], FALSE)
                      ELSE << <<"noattr", deps[i], FALSE>> >>])
        \o << <<"dump", e, create>> >>

SavePlan(e, create) ==
    LET deps == Dependencies(e)
    IN  << <<"check", e, create>> >>
        \o Flatten([i \in 1..Len(deps) |->
                      IF IsObject(deps[i]) THEN SavePlan(deps[i], FALSE)
                      ELSE << <<"noattr", deps[i], FALSE>> >>])
        \o << <<"open", e, create>>, <<"dump", e, create>> >>

SaveName(e) == <<Tag(e), GetId(e)>>       \* <ClassName>_<ID>.json

FileAt(fs, name) == IF name \in DOMAIN fs THEN fs[name] ELSE NoFile
Put(fs, name, content) ==
    [n \in DOMAIN fs \cup {name} |-> IF n = name THEN content ELSE fs[n]]

\* mutant: a missing directory is created whatever create says
CheckSaveDirAlwaysCreates(dir, create) ==
    CASE dir = "missing" -> <<"dir", "ok">>
      [] dir = "file" -> <<dir, "FileExistsError">>
      [] OTHER -> <<dir, "ok">>

\* Storable._check_save_dir: <<directory afterwards, exception or "ok">>
CheckSaveDir(dir, create) ==
    CASE dir = "missing" /\ create -> <<"dir", "ok">>
      [] dir = "missing" /\ ~create -> <<dir, "FileNotFoundError">>
      [] dir = "file" -> <<dir, "FileExistsError">>
      [] OTHER -> <<dir, "ok">>

\* mutant: creating a directory that exists already succeeds
mkdir_exist_ok(dir) ==
    IF dir = "file" THEN <<dir, "FileExistsError">> ELSE <<"dir", "ok">>

\* os.mkdir(save_dir): <<directory afterwards, exception or "ok">>
mkdir(dir) ==
    IF dir = "missing" THEN <<"dir", "ok">> ELSE <<dir, "FileExistsError">>

\* save_path is computed and opened for writing: <<files afterwards, outcome>>
OpenSaveFile(fs, e) ==
    CHOOSE out \in {IF IsErr(name[2]) THEN <<fs, Val(name[2])>>
                     ELSE <<Put(fs, name, Truncated), "ok">> :
                        name \in {SaveName(e)}} : TRUE

\* json.dump(self.get_dict_representation(by_id=True), output_file)
DumpSaveFile(fs, e) ==
    CHOOSE out \in {IF IsErr(text) THEN <<fs, Val(text)>>
                     ELSE <<Put(fs, SaveName(e), text), "ok">> :
                        text \in {json_dumps(rep, FALSE) :
                                    rep \in {DictRep(e, "true")}}} : TRUE

----------------------------------------------------------------------------
\* FeatureExtractor

\* FeatureExtractor.denumpyify
RECURSIVE denumpyify(_)
denumpyify(v) ==
    CASE Tag(v) = "ndarray" -> ListV(Val(v))             \* variable.tolist()
      [] Tag(v) = "np.float64" -> <<"float", Val(v)>>
      [] Tag(v) = "dict" ->
            LET new_keys == [i \in 1..Len(Val(v)) |-> denumpyify(Val(v)[i][1])]
                new_values == [i \in 1..Len(Val(v)) |-> denumpyify(Val(v)[i][2])]
            IN  IF HasErr(new_keys \o new_values) THEN FirstErr(new_keys \o new_values)
                ELSE IF \E i \in 1..Len(new_keys) : Tag(new_keys[i]) \in {"list", "dict"}
                THEN Err("TypeError")          \* new_dict[new_key]: unhashable key
                ELSE DictUpdate(DictV(<<>>),
                                [i \in 1..Len(Val(v)) |-> <<new_keys[i], new_values[i]>>])
      [] Tag(v) \in {"list", "tuple"} ->
            LET new_list == [i \in 1..Len(Val(v)) |-> denumpyify(Val(v)[i])]
            IN  IF HasErr(new_list) THEN FirstErr(new_list) ELSE ListV(new_list)
      [] OTHER -> v

\* FeatureExtractor.get_configuration_id
get_configuration_id(e) == hexdigest(json_dumps(Val(e)[1], TRUE))

WithConfig(e, config) ==
    <<"FeatureExtractor", <<config, Val(e)[2], Val(e)[3], LoadedSettings(config)>>>>

\* FeatureExtractor.change_setting: the configuration's settings become the
\* extractor's current settings with key set, and are loaded again
change_setting(e, key, value) ==
    WithConfig(e, DictSet(Val(e)[1], StrV("setting"), DictSet(Val(e)[4], key, value)))

\* FeatureExtractor.remove_setting
remove_setting(e, key) ==
    IF ~DictHas(Val(e)[4], key) THEN Err("KeyError")
    ELSE WithConfig(e, DictSet(Val(e)[1], StrV("setting"), DictPop(Val(e)[4], key)))

\* the force2D_adaptive_axis block at the head of extract
AdaptConfig(e, dimension_2D) ==
    IF ~Val(e)[3] THEN e
    ELSE IF ~DictHas(Val(e)[1], StrV("setting")) THEN Err("KeyError")
    ELSE LET setting == DictGet(Val(e)[1], StrV("setting"))
         IN  IF DictHas(setting, StrV("force2D"))
                /\ DictGet(setting, StrV("force2D")) = BoolV(TRUE)
             THEN change_setting(e, StrV("force2Ddimension"), IntV(dimension_2D))
             ELSE remove_setting(e, StrV("force2Ddimension"))

\* config_id in self.features and tc.id in self.features[config_id]
IsCached(e, config_id, tc_id) ==
    /\ DictHas(Val(e)[2], config_id)
    /\ DictHas(DictGet(Val(e)[2], config_id), tc_id)

\* self.features[config_id][tc.id] = converted_features
StoreFeatures(e, config_id, tc_id, converted) ==
    LET features == Val(e)[2]
        space == IF DictHas(features, config_id) THEN DictGet(features, config_id)
                 ELSE DictV(<<>>)
    IN  <<"FeatureExtractor",
          <<Val(e)[1], DictSet(features, config_id, DictSet(space, tc_id, converted)),
            Val(e)[3], Val(e)[4]>>>>

\* mutant: extract never looks into the cache
extract_uncached(e, tc_id, dimension_2D, outcome) ==
    LET adapted == AdaptConfig(e, dimension_2D)
        config_id == get_configuration_id(adapted)
    IN  IF IsErr(adapted) THEN <<e, None, FALSE, adapted>>
        ELSE IF IsErr(outcome) THEN <<adapted, config_id, TRUE, outcome>>
        ELSE <<StoreFeatures(adapted, config_id, tc_id, denumpyify(outcome)),
               config_id, TRUE, denumpyify(outcome)>>

\* mutant: the namespace of the config ID is made before the extractor runs
extract_namespace_first(e, tc_id, dimension_2D, outcome) ==
    LET adapted == AdaptConfig(e, dimension_2D)
        config_id == get_configuration_id(adapted)
        opened == IF DictHas(Val(adapted)[2], config_id) THEN adapted
                  ELSE <<"FeatureExtractor",
                         <<Val(adapted)[1],
                           DictSet(Val(adapted)[2], config_id, DictV(<<>>)),
                           Val(adapted)[3], Val(adapted)[4]>>>>
    IN  IF IsErr(adapted) THEN <<e, None, FALSE, adapted>>
        ELSE IF IsCached(adapted, config_id, tc_id)
        THEN <<adapted, config_id, FALSE, DictGet(DictGet(Val(adapted)[2], config_id), tc_id)>>
        ELSE IF IsErr(outcome) THEN <<opened, config_id, TRUE, outcome>>
        ELSE <<StoreFeatures(adapted, config_id, tc_id, denumpyify(outcome)),
               config_id, TRUE, denumpyify(outcome)>>

\* mutant: the config ID is taken before force2Ddimension is resolved
extract_id_first(e, tc_id, dimension_2D, outcome) ==
    LET adapted == AdaptConfig(e, dimension_2D)
        config_id == get_configuration_id(e)
    IN  IF IsErr(adapted) THEN <<e, None, FALSE, adapted>>
        ELSE IF IsCached(adapted, config_id, tc_id)
        THEN <<adapted, config_id, FALSE, DictGet(DictGet(Val(adapted)[2], config_id), tc_id)>>
        ELSE IF IsErr(outcome) THEN <<adapted, config_id, TRUE, outcome>>
        ELSE <<StoreFeatures(adapted, config_id, tc_id, denumpyify(outcome)),
               config_id, TRUE, denumpyify(outcome)>>

\* FeatureExtractor.extract(tc), where extractor.execute would return (or raise)
\* `outcome`: <<extractor afterwards, config id, executed, returned value>>
extract(e, tc_id, dimension_2D, outcome) ==
    LET adapted == AdaptConfig(e, dimension_2D)
        config_id == get_configuration_id(adapted)
    IN  IF IsErr(adapted) THEN <<e, None, FALSE, adapted>>
        ELSE IF IsCached(adapted, config_id, tc_id)
        THEN <<adapted, config_id, FALSE, DictGet(DictGet(Val(adapted)[2], config_id), tc_id)>>
        ELSE IF IsErr(outcome) THEN <<adapted, config_id, TRUE, outcome>>
        ELSE <<StoreFeatures(adapted, config_id, tc_id, denumpyify(outcome)),
               config_id, TRUE, denumpyify(outcome)>>

----------------------------------------------------------------------------
\* TestCaseCollection sampling

CountDen == 2           \* a float count is a multiple of 1/CountDen
MaxCases == 3           \* test cases in the collection
MaxSeed == 1            \* random_seed is 0..MaxSeed
MaxCount == 2           \* an int count is -1..MaxCount

\* counts are <<"int", n>> or <<"float", q>>, the float q / CountDen
CountBelowZero(count) == Val(count) < 0
CountAboveOne(count) ==
    IF Tag(count) = "int" THEN Val(count) > 1 ELSE Val(count) > CountDen

\* round(num / den) for num >= 0: Python rounds a tie to the even neighbour
RoundHalfEven(num, den) ==
    LET low == num \div den
        rest == num % den
    IN  IF 2 * rest < den THEN low
        ELSE IF 2 * rest > den THEN low + 1
        ELSE IF low % 2 = 0 THEN low ELSE low + 1

\* mutant: ties round up instead of to the even neighbour
RoundedShareHalfUp(count, available) ==
    IF Tag(count) = "int" THEN Val(count) * available
    ELSE (2 * Val(count) * available + CountDen) \div (2 * CountDen)

\* round(count * min_available_per_category)
RoundedShare(count, available) ==
    IF Tag(count) = "int" THEN Val(count) * available
    ELSE RoundHalfEven(Val(count) * available, CountDen)

\* the generator random.Random(random_seed) starts from, and its next state
SeedState(seed) == (seed * 7 + 2) % 17
NextRandom(s) == (s * 5 + 3) % 17

\* random.Random.sample(pool, k) for 0 <= k <= len(pool), from generator state
\* s: <<the k picks, the generator state afterwards>>
RECURSIVE RandomSample(_, _, _)
RandomSample(pool, k, s) ==
    IF k = 0 THEN <<<<>>, s>>
    ELSE LET n == Len(pool)
             s1 == NextRandom(s)
             j == (s1 % n) + 1
             pool1 == [i \in 1..(n - 1) |-> IF i = j THEN pool[n] ELSE pool[i]]
             rest == RandomSample(pool1, k - 1, s1)
         IN  <<<<pool[j]>> \o rest[1], rest[2]>>

\* tc.nar if metric == "nar" else tc.pcr
CategoryOf(tc, metric) == IF metric = "nar" THEN Val(tc)[3] ELSE Val(tc)[2]

\* mutant: test cases without a label form a category of their own
RECURSIVE CategoriesKeepNone(_, _, _)
CategoriesKeepNone(tcs, metric, cats) ==
    IF tcs = <<>> THEN cats
    ELSE LET label == CategoryOf(Head(tcs), metric)
             key == Val(Head(tcs))[1]
             known == \E i \in 1..Len(cats) : cats[i][1] = label
             added == IF known
                      THEN [i \in 1..Len(cats) |->
                              IF cats[i][1] = label
                              THEN <<label, Append(cats[i][2], key)>> ELSE cats[i]]
                      ELSE Append(cats, <<label, <<key>>>>)
         IN  CategoriesKeepNone(Tail(tcs), metric, added)

\* the categories dict made by get_equal_sample: <<label, keys>> in the order
\* the labels are first met; test cases without a label are skipped
RECURSIVE Categories(_, _, _)
Categories(tcs, metric, cats) ==
    IF tcs = <<>> THEN cats
    ELSE LET label == CategoryOf(Head(tcs), metric)
             key == Val(Head(tcs))[1]
             known == \E i \in 1..Len(cats) : cats[i][1] = label
             added == IF known
                      THEN [i \in 1..Len(cats) |->
                              IF cats[i][1] = label
                              THEN <<label, Append(cats[i][2], key)>> ELSE cats[i]]
                      ELSE Append(cats, <<label, <<key>>>>)
         IN  IF Tag(label) = "null" THEN Categories(Tail(tcs), metric, cats)
             ELSE Categories(Tail(tcs), metric, added)

\* min([len(categories[c]) for c in categories]), for at least one category
MinAvailable(cats) ==
    CHOOSE m \in {Len(cats[i][2]) : i \in 1..Len(cats)} :
        \A i \in 1..Len(cats) : m <= Len(cats[i][2])

\* the loop `for c in categories: chosen = chosen + sample(categories[c], to_choose)`
\* <<status, chosen, categories drawn from, generator state afterwards>>
RECURSIVE DrawAll(_, _, _, _, _)
DrawAll(cats, to_choose, s, chosen, draws) ==
    IF cats = <<>> THEN <<"ok", chosen, draws, s>>
    ELSE IF to_choose < 0 \/ to_choose > Len(cats[1][2])
    THEN <<"ValueError", <<>>, draws, s>>     \* Sample larger than population or is negative
    ELSE LET got == RandomSample(cats[1][2], to_choose, s)
         IN  DrawAll(Tail(cats), to_choose, got[2], chosen \o got[1], draws + 1)

\* mutant: the request is never found too large before drawing
TooManyUnchecked(to_choose, available) == FALSE

\* if to_choose > min_available_per_category: raise ValueError
TooMany(to_choose, available) == to_choose > available

\* the body of get_equal_sample drawing from a generator in state s
EqualSampleFrom(tcs, count, fractional, metric, s) ==
    LET cats == Categories(tcs, metric, <<>>)
        available == MinAvailable(cats)
        to_choose == IF fractional THEN RoundedShare(count, available) ELSE Val(count)
    IN  IF metric \notin {"nar", "pcr"} THEN <<"ValueError", <<>>, 0, s>>
        ELSE IF fractional /\ (CountBelowZero(count) \/ CountAboveOne(count))
        THEN <<"ValueError", <<>>, 0, s>>
        ELSE IF cats = <<>> THEN <<"ValueError", <<>>, 0, s>>     \* min() of nothing
        ELSE IF ~fractional /\ Tag(count) # "int" THEN <<"TypeError", <<>>, 0, s>>
        ELSE IF TooMany(to_choose, available) THEN <<"ValueError", <<>>, 0, s>>
        ELSE DrawAll(cats, to_choose, s, <<>>, 0)

\* mutant: the sample is drawn from the random module's shared generator
get_equal_sample_shared(tcs, count, fractional, metric, random_seed, g) ==
    LET r == EqualSampleFrom(tcs, count, fractional, metric, g)
    IN  <<r[1], r[2], r[3], r[4], tcs>>

\* TestCaseCollection.get_equal_sample(count, fractional, metric, random_seed) while
\* the shared generator is in state g:
\* <<status, chosen, categories drawn from, shared generator afterwards, test_cases>>
get_equal_sample(tcs, count, fractional, metric, random_seed, g) ==
    LET r == EqualSampleFrom(tcs, count, fractional, metric, SeedState(random_seed))
    IN  <<r[1], r[2], r[3], g, tcs>>

\* list.remove(x): the list without its first x, ValueError when x is not in it
ListRemove(list, x) ==
    IF \A i \in 1..Len(list) : list[i] # x THEN Err("ValueError")
    ELSE LET at == CHOOSE i \in 1..Len(list) :
                      list[i] = x /\ \A j \in 1..(i - 1) : list[j] # x
         IN  ListV(SubSeq(list, 1, at - 1) \o SubSeq(list, at + 1, Len(list)))

\* for test_case_id in test_case_ids: all_but.remove(test_case_id)
RECURSIVE RemoveEach(_, _)
RemoveEach(all_but, test_case_ids) ==
    IF test_case_ids = <<>> THEN ListV(all_but)
    ELSE LET removed == ListRemove(all_but, Head(test_case_ids))
         IN  IF IsErr(removed) THEN removed
             ELSE RemoveEach(Val(removed), Tail(test_case_ids))

\* TestCaseCollection.get_all_but(test_case_ids): the list returned, or the
\* exception
get_all_but(tcs, test_case_ids) ==
    RemoveEach([i \in 1..Len(tcs) |-> Val(tcs[i])[1]], test_case_ids)

\* mutant: IDs without a label are kept
remove_none_values_kept(tcs, test_case_ids, metric) == test_case_ids

\* TestCaseCollection.remove_none_values(test_case_ids, metric)
remove_none_values(tcs, test_case_ids, metric) ==
    SelectSeq(test_case_ids,
              LAMBDA id : \E i \in 1..Len(tcs) :
                             /\ Val(tcs[i])[1] = id
                             /\ Tag(CategoryOf(tcs[i], metric)) # "null")

\* the loop of Classifier.classify from pass round on: the rounds appended, or
\* the exception get_equal_sample raised.  The call names count, fractional
\* and metric only, so random_seed is get_equal_sample's default 0.  Of a
\* round, train_set, test_set and random_seed are kept; fitting and predicting
\* are taken to return.
RECURSIVE ClassifyRounds(_, _, _, _, _, _, _, _)
ClassifyRounds(tcs, random_seed, round, rounds, train_set_size, fractional, metric, done) ==
    IF round >= rounds THEN ListV(done)
    ELSE LET round_seed == random_seed + round
             sample == get_equal_sample(tcs, train_set_size, fractional, metric, 0, 0)
             train_set == sample[2]
             all_but == get_all_but(tcs, train_set)
             test_set == remove_none_values(tcs, Val(all_but), metric)
         IN  IF sample[1] # "ok" THEN Err(sample[1])
             ELSE IF IsErr(all_but) THEN all_but
             ELSE ClassifyRounds(tcs, random_seed, round + 1, rounds, train_set_size,
                                 fractional, metric,
                                 Append(done, <<"ClassificationRound",
                                                <<ListV(train_set), ListV(test_set),
                                                  IntV(round_seed), None, None>>>>))

\* Classifier(random_seed).classify(tcc, fe, ff, rounds, train_set_size,
\* set_size_fractional, metric): classification_rounds of the result
classify(random_seed, tcs, rounds, train_set_size, fractional, metric) ==
    ClassifyRounds(tcs, random_seed, 0, rounds, train_set_size, fractional, metric, <<>>)

\* TestCaseCollection.__init__: dict((tc.get_id(), tc) for tc in test_cases), a
\* repeated ID keeps its first place and takes the later test case
RECURSIVE NewTestCaseCollection(_, _)
NewTestCaseCollection(test_cases, held) ==
    IF test_cases = <<>> THEN <<"TestCaseCollection", <<held>>>>
    ELSE LET tc == Head(test_cases)
             known == \E i \in 1..Len(held) : Val(held[i])[1] = Val(tc)[1]
         IN  NewTestCaseCollection(
                 Tail(test_cases),
                 IF known
                 THEN [i \in 1..Len(held) |->
                         IF Val(held[i])[1] = Val(tc)[1] THEN tc ELSE held[i]]
                 ELSE Append(held, tc))

\* the scans that lie next to the csv file with a matching annotation
ScansOnDisk == {"s1", "s2"}

\* TestCase.from_scan_path(scan_name, pcr, nar): the test case of the scan, or
\* the exception loading its files raises
from_scan_path(scan_name, pcr, nar) ==
    IF scan_name \in ScansOnDisk
    THEN <<"TestCase", <<StrV(scan_name), BoolV(pcr), nar>>>>
    ELSE Err("FileNotFoundError")

\* str.lower() of the label column
Lower(column) ==
    CASE column = "pCR" -> "pcr"
      [] column = "PCR" -> "pcr"
      [] column = "Non-pCR" -> "non-pcr"
      [] OTHER -> column

\* int(column)
ParseInt(column) ==
    CASE column = "0" -> IntV(0)
      [] column = "1" -> IntV(1)
      [] OTHER -> Err("ValueError")

\* the statements from_csv runs for one line up to from_scan_path: the test
\* case, or the exception raised (IndexError for a line of fewer than two
\* columns, raised outside the try block)
RowCase(line) ==
    IF Len(line) < 2 THEN Err("IndexError")
    ELSE LET pcr == Lower(line[2]) = "pcr"
             nar == IF Len(line) > 2 /\ ~IsErr(ParseInt(line[3]))
                    THEN ParseInt(line[3]) ELSE None
         IN  from_scan_path(line[1], pcr, nar)

\* the loop of from_csv over the remaining lines; tc is the loop's variable
\* tc, None while it is unbound
RECURSIVE CsvLoop(_, _, _, _)
CsvLoop(lines, skip_invalid, tc, test_cases) ==
    IF lines = <<>> THEN NewTestCaseCollection(test_cases, <<>>)
    ELSE LET made == RowCase(Head(lines))
             now == IF IsErr(made) THEN tc ELSE made
         IN  IF Len(Head(lines)) < 2 THEN made
             ELSE IF IsErr(made) /\ ~skip_invalid THEN made        \* raise ex
             ELSE IF now = None THEN Err("UnboundLocalError")      \* test_cases.append(tc)
             ELSE CsvLoop(Tail(lines), skip_invalid, now, Append(test_cases, now))

\* TestCaseCollection.from_csv(csv_path, skip_invalid=skip_invalid)
from_csv(lines, skip_invalid) == CsvLoop(lines, skip_invalid, None, <<>>)

----------------------------------------------------------------------------
\* FeatureFilter stages

\* mutant: the prefix test ignores invert
filter_key_starts_with_all(features, prefix, invert) ==
    ListV([r \in 1..Len(Val(features)) |->
             DictV(SelectSeq(Val(Val(features)[r]), LAMBDA item : TRUE))])

\* key.startswith(prefix); a str is the sequence of its characters
startswith(key, prefix) ==
    /\ Len(Val(prefix)) <= Len(Val(key))
    /\ SubSeq(Val(key), 1, Len(Val(prefix))) = Val(prefix)

\* FeatureFilter._filter_key_starts_with(features, prefix, invert=invert): a new
\* dict per feature dict, holding the items whose key passes the prefix test
filter_key_starts_with(features, prefix, invert) ==
    ListV([r \in 1..Len(Val(features)) |->
             DictV(SelectSeq(Val(Val(features)[r]),
                             LAMBDA item : startswith(item[1], prefix) # invert))])

\* tuple(all_keys) of the set made from a dict's keys: the iteration order of
\* a set of str depends on the process's hash seed; order is "forward" or "reverse"
SetOrder(keys, order) ==
    IF order = "forward" THEN keys ELSE [i \in 1..Len(keys) |-> keys[Len(keys) + 1 - i]]

KeysOf(d) == [i \in 1..Len(Val(d)) |-> Val(d)[i][1]]
InSeq(x, seq) == \E i \in 1..Len(seq) : seq[i] = x

\* {key: feature_set[key] for key in key_selection}
PickKeys(feature_set, key_selection) ==
    IF \E i \in 1..Len(key_selection) : ~DictHas(feature_set, key_selection[i])
    THEN Err("KeyError")
    ELSE DictV([i \in 1..Len(key_selection) |->
                  <<key_selection[i], DictGet(feature_set, key_selection[i])>>])

\* mutant: the inverted selection is drawn afresh with the complementary size
\* instead of being the complement of the drawn selection
filter_random_choice_redrawn(features, fraction, random_seed, invert, order) ==
    IF Val(features) = <<>> THEN features
    ELSE LET all_keys == SetOrder(KeysOf(Val(features)[1]), order)
             to_choose == IF invert
                          THEN Len(all_keys) - RoundedShare(fraction, Len(all_keys))
                          ELSE RoundedShare(fraction, Len(all_keys))
         IN  IF to_choose < 0 \/ to_choose > Len(all_keys) THEN Err("ValueError")
             ELSE CHOOSE out \in
                    {IF HasErr(picked) THEN FirstErr(picked) ELSE ListV(picked) :
                       picked \in {[r \in 1..Len(Val(features)) |->
                                      PickKeys(Val(features)[r], key_selection)] :
                          key_selection \in
                            {RandomSample(all_keys, to_choose,
                                          SeedState(random_seed))[1]}}} : TRUE

\* FeatureFilter._filter_random_choice(features, fraction, random_seed=...,
\* invert=...) in a process whose sets iterate in the given order
filter_random_choice(features, fraction, random_seed, invert, order) ==
    IF Val(features) = <<>> THEN features
    ELSE LET all_keys == SetOrder(KeysOf(Val(features)[1]), order)
             to_choose == RoundedShare(fraction, Len(all_keys))
         IN  IF to_choose < 0 \/ to_choose > Len(all_keys) THEN Err("ValueError")
             ELSE CHOOSE out \in
                    {IF HasErr(picked) THEN FirstErr(picked) ELSE ListV(picked) :
                       picked \in {[r \in 1..Len(Val(features)) |->
                                      PickKeys(Val(features)[r], key_selection)] :
                          key_selection \in
                            {IF invert
                             THEN SelectSeq(all_keys, LAMBDA k : ~InSeq(k, drawn))
                             ELSE drawn :
                               drawn \in {RandomSample(all_keys, to_choose,
                                                       SeedState(random_seed))[1]}}}} :
                      TRUE

\* for feature in importances: ... test_case.pop(feature), on the copy
RECURSIVE DropUnimportant(_, _, _, _)
DropUnimportant(filtered, items, threshold, invert) ==
    IF items = <<>> THEN ListV(filtered)
    ELSE LET remove_feature == (Val(items[1][2]) < Val(threshold)) # invert
         IN  IF ~remove_feature
             THEN DropUnimportant(filtered, Tail(items), threshold, invert)
             ELSE IF \E r \in 1..Len(filtered) : ~DictHas(filtered[r], items[1][1])
             THEN Err("KeyError")
             ELSE DropUnimportant([r \in 1..Len(filtered) |->
                                      DictPop(filtered[r], items[1][1])],
                                  Tail(items), threshold, invert)

\* FeatureFilter._filter_importance_threshold(features, importances, threshold,
\* invert=invert): works on a deep copy of features
filter_importance_threshold(features, importances, threshold, invert) ==
    DropUnimportant(Val(features), Val(importances), threshold, invert)

\* truth value of a keyword argument
Truthy(v) == v \notin {BoolV(FALSE), IntV(0), None}

\* a keyword argument, or the default the stage function declares
KwOr(kwargs, name, default) ==
    IF DictHas(kwargs, StrV(name)) THEN DictGet(kwargs, StrV(name)) ELSE default

\* getattr(self, "_filter_" + filter_name)(features, *args, **kwargs):
\* <<result, whether the result is the features list itself>>
CallStage(filter_name, args, kwargs, features, aliased, order) ==
    CASE filter_name = "do_nothing" -> <<features, aliased>>
      [] filter_name = "key_starts_with" ->
            IF Len(args) < 1 THEN <<Err("TypeError"), FALSE>>    \* prefix is missing
            ELSE IF /\ Tag(args[1]) # "str"       \* startswith first arg must be str
                    /\ \E r \in 1..Len(Val(features)) : Val(Val(features)[r]) # <<>>
            THEN <<Err("TypeError"), FALSE>>
            ELSE <<filter_key_starts_with(features, args[1],
                       Truthy(KwOr(kwargs, "invert", BoolV(FALSE)))), FALSE>>
      [] filter_name = "importance_threshold" ->
            IF Len(args) < 2 THEN <<Err("TypeError"), FALSE>>
            ELSE IF Tag(args[1]) # "dict" \/ Tag(args[2]) \notin {"int", "float"}
            THEN <<Err("TypeError"), FALSE>>
            ELSE <<filter_importance_threshold(features, args[1], args[2],
                       Truthy(KwOr(kwargs, "invert", BoolV(FALSE)))), FALSE>>
      [] filter_name = "random_choice" ->
            IF Len(args) < 1 THEN <<Err("TypeError"), FALSE>>    \* fraction is missing
            ELSE IF Val(features) # <<>> /\ Tag(args[1]) \notin {"int", "float"}
            THEN <<Err("TypeError"), FALSE>>       \* round(len(...) * fraction)
            ELSE <<filter_random_choice(features, args[1],
                       Val(KwOr(kwargs, "random_seed", IntV(0))),
                       Truthy(KwOr(kwargs, "invert", BoolV(FALSE))), order),
                   aliased /\ Val(features) = <<>>>>
      [] OTHER -> <<Err("AttributeError"), FALSE>>

\* mutant: the seed increases whenever both keys are present
SeedAfterAlways(kwargs) ==
    IF DictHas(kwargs, StrV("random_seed")) /\ DictHas(kwargs, StrV("increase_seed"))
    THEN DictSet(kwargs, StrV("random_seed"),
                 IntV(Val(DictGet(kwargs, StrV("random_seed"))) + 1))
    ELSE kwargs

\* if "random_seed" in self.kwargs and "increase_seed" in self.kwargs: ...
SeedAfter(kwargs) ==
    IF /\ DictHas(kwargs, StrV("random_seed"))
       /\ DictHas(kwargs, StrV("increase_seed"))
       /\ Truthy(DictGet(kwargs, StrV("increase_seed")))
    THEN DictSet(kwargs, StrV("random_seed"),
                 IntV(Val(DictGet(kwargs, StrV("random_seed"))) + 1))
    ELSE kwargs

\* mutant: the later subfilter's records take the place of the earlier ones
ZipReplace(olds, news) ==
    [k \in 1..Len(olds) |-> IF k <= Len(news) THEN news[k] ELSE olds[k]]

\* for old_features, new_features in zip(...): old_features.update(new_features)
ZipUpdate(olds, news) ==
    [k \in 1..Len(olds) |->
        IF k <= Len(news) THEN DictUpdate(olds[k], Val(news[k])) ELSE olds[k]]

\* FeatureFilter.filter(features) and FeatureFilter.execute_subfilters(features)
\* in a process whose sets iterate in the given order.  Both give
\*   <<result, the stage(s) afterwards, the caller's features afterwards,
\*     whether the result is the caller's features list itself>>
\* : a stage's kwargs change when its seed increases, and the caller's dicts
\* change when a result that is the features list itself is updated in place.
RECURSIVE filter(_, _, _)
RECURSIVE SubfilterLoop(_, _, _, _, _, _)

\* the loop of execute_subfilters from subfilter i on; filtered is
\* filtered_features so far and aliased tells whether it is the features list
SubfilterLoop(subs, i, features, filtered, aliased, order) ==
    IF i > Len(subs) THEN <<filtered, subs, features, aliased>>
    ELSE IF ~IsObject(subs[i]) THEN <<Err("AttributeError"), subs, features, FALSE>>
    ELSE CHOOSE out \in
           {IF IsErr(r[1])
            THEN <<r[1], [subs EXCEPT ![i] = r[2]], r[3], FALSE>>
            ELSE IF Val(IF aliased THEN r[3] ELSE filtered) = <<>>
            THEN SubfilterLoop([subs EXCEPT ![i] = r[2]], i + 1, r[3], r[1], r[4], order)
            ELSE SubfilterLoop([subs EXCEPT ![i] = r[2]], i + 1,
                               IF aliased THEN ListV(ZipUpdate(Val(r[3]), Val(r[1])))
                               ELSE r[3],
                               ListV(ZipUpdate(Val(IF aliased THEN r[3] ELSE filtered),
                                               Val(r[1]))),
                               aliased, order) :
              r \in {filter(subs[i], features, order)}} : TRUE

execute_subfilters(ff, features, order) ==
    IF Val(ff)[4] = <<>> THEN <<features, <<>>, features, TRUE>>
    ELSE SubfilterLoop(Val(ff)[4], 1, features, ListV(<<>>), FALSE, order)

\* filter once execute_subfilters has given sub: the stage function is called
\* and, when it returns, the seed is increased
FilterAfterSubfilters(ff, sub, order) ==
    LET stage(kwargs) ==
            <<"FeatureFilter", <<Val(ff)[1], Val(ff)[2], kwargs,
                                 IF Val(ff)[4] = <<>> THEN <<>> ELSE sub[2]>>>>
    IN  IF IsErr(sub[1]) THEN <<sub[1], stage(Val(ff)[3]), sub[3], FALSE>>
        ELSE CHOOSE done \in
               {IF IsErr(called[1])
                THEN <<called[1], stage(Val(ff)[3]), sub[3], FALSE>>
                ELSE <<called[1], stage(SeedAfter(Val(ff)[3])), sub[3],
                       called[2] /\ sub[4]>> :
                  called \in {CallStage(Val(ff)[1], Val(ff)[2], Val(ff)[3],
                                        sub[1], TRUE, order)}} : TRUE

filter(ff, features, order) ==
    CHOOSE out \in {FilterAfterSubfilters(ff, sub, order) :
                      sub \in {execute_subfilters(ff, features, order)}} : TRUE

\* the two ff.filter calls of each round of Classifier.classify, from pass
\* round on: <<the filtered train and test features per round or the
\* exception, ff afterwards>>
RECURSIVE FilterRounds(_, _, _, _, _, _, _)
FilterRounds(ff, train, test, round, rounds, order, done) ==
    IF round >= rounds THEN <<ListV(done), ff>>
    ELSE CHOOSE out \in
           {IF IsErr(train_features[1]) THEN <<train_features[1], train_features[2]>>
            ELSE CHOOSE both \in
                   {IF IsErr(test_features[1]) THEN <<test_features[1], test_features[2]>>
                    ELSE FilterRounds(test_features[2], train, test, round + 1, rounds,
                                      order,
                                      Append(done, <<train_features[1], test_features[1]>>)) :
                      test_features \in {filter(train_features[2], test, order)}} : TRUE :
              train_features \in {filter(ff, train, order)}} : TRUE

----------------------------------------------------------------------------
\* The entities the store specifications range over

MaxSubfilters == 1      \* longest subfilter list of a sample FeatureFilter

KwargsAB == DictV(<< <<StrV("a"), IntV(1)>>, <<StrV("b"), IntV(2)>> >>)   \* f(a=1, b=2)
KwargsBA == DictV(<< <<StrV("b"), IntV(2)>>, <<StrV("a"), IntV(1)>> >>)   \* f(b=2, a=1)

BaseFilters ==
    {NewFeatureFilter(n, a, <<>>, k) :
        n \in {"do_nothing", "key_starts_with"},
        a \in {<<>>, <<IntV(1)>>},
        k \in {DictV(<<>>), KwargsAB, KwargsBA}}

SubfilterLists == UNION {[1..n -> BaseFilters] : n \in 1..MaxSubfilters}

NestedFilters ==
    {NewFeatureFilter(n, <<>>, subs, DictV(<<>>)) :
        n \in {"do_nothing", "key_starts_with"}, subs \in SubfilterLists}

\* a stage whose subfilter has a subfilter of its own
DeepFilters ==
    {NewFeatureFilter("do_nothing", <<>>,
        <<NewFeatureFilter("key_starts_with", <<>>,
                           <<NewFeatureFilter(n, <<IntV(1)>>, <<>>, DictV(<<>>))>>,
                           DictV(<<>>))>>,
        DictV(<<>>)) : n \in {"do_nothing", "key_starts_with"}}

SampleCase(i, pcr, nar) ==
    <<"TestCase", <<StrV(<<"t1", "t2", "t3", "t4">>[i]), BoolV(pcr), nar>>>>

SampleCollections ==
    {<<"TestCaseCollection", <<tcs>>>> :
        tcs \in {<<>>, <<SampleCase(1, TRUE, IntV(1))>>,
                 <<SampleCase(1, TRUE, IntV(1)), SampleCase(2, FALSE, None)>>}}

ConfigEmpty == DictV(<<>>)
ConfigForce2D ==
    DictV(<< <<StrV("setting"),
               DictV(<< <<StrV("correctMask"), BoolV(TRUE)>>,
                        <<StrV("force2D"), BoolV(TRUE)>>,
                        <<StrV("force2Ddimension"), IntV(0)>> >>)>> >>)

SampleExtractors ==
    {NewFeatureExtractor(c, adaptive) :
        c \in {ConfigEmpty, ConfigForce2D}, adaptive \in BOOLEAN}

SampleRound ==
    <<"ClassificationRound",
      <<ListV(<<StrV("t1")>>), ListV(<<StrV("t2")>>), IntV(0),
        ListV(<<IntV(1)>>), ListV(<<IntV(1)>>)>>>>

\* what Classifier.classify returns for (tcc, fe, ff) after `rounds` rounds
SampleClassifications ==
    {<<"Classification",
       <<col, ex, ff, IntV(1), BoolV(FALSE), StrV("nar"),
         get_configuration_id(ex), rounds>>>> :
        col \in SampleCollections,
        ex \in {NewFeatureExtractor(ConfigForce2D, FALSE)},
        ff \in {NewFeatureFilter("key_starts_with", <<IntV(1)>>, <<>>, DictV(<<>>)),
                NewFeatureFilter("do_nothing", <<>>,
                    <<NewFeatureFilter("do_nothing", <<>>, <<>>, DictV(<<>>))>>,
                    DictV(<<>>))},
        rounds \in {<<>>, <<SampleRound>>}}

SampleEntities ==
    BaseFilters \cup NestedFilters \cup DeepFilters \cup SampleCollections
    \cup SampleExtractors
    \cup {SampleRound} \cup SampleClassifications

----------------------------------------------------------------------------
\* Each specification exercises one part of the program and leaves the
\* variables of the other parts at these idle values.

NotLoaded == <<"none", None>>
NoIds == <<None, None>>

StoreQuiet ==
    /\ files = [n \in {} |-> NoFile]
    /\ todo = <<>>
    /\ saveState = "idle"
    /\ saveCall = <<FALSE, "dir">>
    /\ toFile = NoFile
    /\ loaded = NotLoaded
    /\ ids = NoIds

TcIds == {StrV("t1"), StrV("t2")}

NoExtract == <<None, None, FALSE, None>>
NoHits == [t \in {} |-> None]

\* the calls made before and between the two compared calls
OtherCalls ==
    {<<<<"int", 1>>, FALSE, "pcr", seed>> : seed \in 0..MaxSeed}
    \cup {<<<<"float", 1>>, TRUE, "nar", seed>> : seed \in 0..MaxSeed}

NoCall == <<None, None>>
NotRepeated == <<"none", <<>>, 0>>

SamplerQuiet ==
    /\ tcc = None
    /\ globalRandom = 0
    /\ pinned = NoCall
    /\ repeated = NotRepeated

FilterQuiet ==
    /\ records = None
    /\ probe = None
    /\ included = None
    /\ excluded = None

NoComplement == <<"none", <<>>, None>>

NotConverted == <<"none", None>>

ComplementQuiet == complement = NoComplement

ConvertQuiet ==
    /\ raw = None
    /\ jsonValue = NotConverted

NotMerged == <<"none", None, None, None, <<>>, None>>

SubfilterQuiet ==
    /\ chain = None
    /\ merged = NotMerged

SaverQuiet ==
    /\ savers = <<>>
    /\ dirBefore = "dir"

NoRounds == <<"none", 0, None>>

RoundQuiet ==
    /\ roundStage = None
    /\ roundInput = <<None, None>>
    /\ roundLog = NoRounds

RestQuiet ==
    ComplementQuiet /\ ConvertQuiet /\ SubfilterQuiet /\ SaverQuiet /\ RoundQuiet

NotClassified == <<"none", <<>>, None>>
NoCsvLoad == <<"none", FALSE, None>>

\* no classifier and no csv file in use
ClassifyQuiet ==
    /\ classifier = 0
    /\ classified = NotClassified
    /\ csvFile = <<>>
    /\ csvLoad = NoCsvLoad

StageQuiet ==
    /\ dataset = None
    /\ hashOrder = "forward"
    /\ stages = None
    /\ outputs = None
    /\ ctor = None
    /\ ctorRun = None

CacheQuiet ==
    /\ fe = None
    /\ dims = [t \in TcIds |-> 0]
    /\ execCount = [k \in {} |-> 0]
    /\ lastExtract = NoExtract
    /\ returned = {}
    /\ reloadHits = NoHits
    /\ resolved = {}

----------------------------------------------------------------------------
\* The sampler specification: get_equal_sample calls on one collection

\* the (pcr, nar) labels a test case may carry
LabelPairs ==
    {<<TRUE, None>>, <<TRUE, IntV(1)>>, <<FALSE, IntV(0)>>, <<FALSE, IntV(1)>>}

Collections ==
    {<<"TestCaseCollection",
       <<[i \in DOMAIN labels |-> SampleCase(i, labels[i][1], labels[i][2])]>>>> :
        labels \in UNION {[1..n -> LabelPairs] : n \in 0..MaxCases}}

Counts ==
    {<<"int", n>> : n \in (-1)..MaxCount}
    \cup {<<"float", q>> : q \in (-1)..(CountDen + 1)}

\* <<count, fractional, metric, random_seed>>
SampleCalls == Counts \X BOOLEAN \X {"pcr", "nar", "age"} \X (0..MaxSeed)

CallSample(call) ==
    get_equal_sample(Val(tcc)[1], call[1], call[2], call[3], call[4], globalRandom)

InitSampler ==
    /\ RestQuiet
    /\ StoreQuiet /\ CacheQuiet /\ FilterQuiet /\ StageQuiet /\ ClassifyQuiet
    /\ subject = None /\ peer = None /\ dirState = "dir"
    /\ tcc \in Collections
    /\ globalRandom = 0
    /\ pinned = NoCall
    /\ repeated = NotRepeated

\* a get_equal_sample call whose parameters and result are kept for comparison
Sample(call) ==
    /\ pinned = NoCall
    /\ LET r == CallSample(call)
       IN  /\ pinned' = <<call, <<r[1], r[2], r[3]>>>>
           /\ globalRandom' = r[4]
           /\ tcc' = <<"TestCaseCollection", <<r[5]>>>>
    /\ repeated' = NotRepeated
    /\ UNCHANGED notSampler

\* a get_equal_sample call with other parameters, its result dropped
SampleOther(call) ==
    /\ call # pinned[1]
    /\ LET r == CallSample(call)
       IN  /\ globalRandom' = r[4]
           /\ tcc' = <<"TestCaseCollection", <<r[5]>>>>
    /\ UNCHANGED <<pinned, repeated>>
    /\ UNCHANGED notSampler

\* get_equal_sample called again with the kept parameters
SampleAgain ==
    /\ pinned # NoCall
    /\ LET r == CallSample(pinned[1])
       IN  /\ repeated' = <<r[1], r[2], r[3]>>
           /\ globalRandom' = r[4]
           /\ tcc' = <<"TestCaseCollection", <<r[5]>>>>
    /\ UNCHANGED pinned
    /\ UNCHANGED notSampler

NextSampler ==
    \/ \E call \in SampleCalls : Sample(call)
    \/ \E call \in OtherCalls : SampleOther(call)
    \/ SampleAgain

SpecSampler == InitSampler /\ [][NextSampler]_vars

----------------------------------------------------------------------------
\* The extractor specification: extract calls and a to_file / from_file reload

MaxDimension == 1       \* slice dimensions of the sample annotations are 0..MaxDimension
MaxExtractRuns == 2     \* extract is not called again once a pair was executed this often

ConfigNoForce2D ==
    DictV(<< <<StrV("setting"), DictV(<< <<StrV("force2D"), BoolV(FALSE)>> >>)>> >>)

\* what extractor.execute may return (or raise)
ExecOutcomes ==
    {DictV(<< <<StrV("a"), <<"np.float64", 1>>>> >>),
     DictV(<< <<StrV("a"), IntV(2)>> >>),
     Err("ValueError")}

InitCache ==
    /\ RestQuiet
    /\ StoreQuiet /\ SamplerQuiet /\ FilterQuiet /\ StageQuiet /\ ClassifyQuiet
    /\ subject = None /\ peer = None /\ dirState = "dir"
    /\ fe \in {NewFeatureExtractor(c, adaptive) :
                 c \in {ConfigEmpty, ConfigForce2D, ConfigNoForce2D}, adaptive \in BOOLEAN}
    /\ dims \in [TcIds -> 0..MaxDimension]
    /\ execCount = [k \in {} |-> 0]
    /\ lastExtract = NoExtract
    /\ returned = {}
    /\ reloadHits = NoHits
    /\ resolved = {}

CountOf(key) == IF key \in DOMAIN execCount THEN execCount[key] ELSE 0

\* force2D_adaptive_axis is on and config["setting"]["force2D"] is set
AdaptiveForce2D(e) ==
    /\ Val(e)[3]
    /\ DictHas(Val(e)[1], StrV("setting"))
    /\ DictHas(DictGet(Val(e)[1], StrV("setting")), StrV("force2D"))
    /\ DictGet(DictGet(Val(e)[1], StrV("setting")), StrV("force2D")) = BoolV(TRUE)

\* fe.extract(tc)
Extract(tc_id, outcome) ==
    /\ \A k \in DOMAIN execCount : execCount[k] < MaxExtractRuns
    /\ \E r \in {extract(fe, tc_id, dims[tc_id], outcome)} :
       \E key \in {<<r[2], tc_id>>} :
           /\ fe' = r[1]
           /\ lastExtract' = <<tc_id, r[2], r[3], r[4]>>
           /\ execCount' = IF r[3] /\ ~IsErr(r[4])
                           THEN [k \in DOMAIN execCount \cup {key} |->
                                    IF k = key THEN CountOf(key) + 1 ELSE execCount[k]]
                           ELSE execCount
           /\ returned' = IF IsErr(r[4]) THEN returned
                          ELSE returned \cup {<<r[2], tc_id, r[4]>>}
           /\ resolved' = IF IsErr(r[4]) THEN resolved
                          ELSE resolved \cup
                               {<<r[2], tc_id, r[3], AdaptiveForce2D(fe), Val(r[1])[1]>>}
    /\ UNCHANGED <<dims, reloadHits>>
    /\ UNCHANGED notCache

\* the value extract(tc) of instance e returns from its cache, if it is a hit
CachedValue(e, tc_id) ==
    LET r == extract(e, tc_id, dims[tc_id], Err("ValueError"))
    IN  IF ~r[3] /\ ~IsErr(r[4]) THEN r[4] ELSE None

\* fe.to_file(path); fe = FeatureExtractor.from_file(path)
Reload ==
    /\ reloadHits = NoHits
    /\ \E content \in {ToFileContent(fe)} :
       \E obj \in {FromFile("FeatureExtractor", content)} :
          /\ ~IsErr(obj)
          /\ fe' = obj
    /\ reloadHits' = [t \in {t \in TcIds : CachedValue(fe, t) # None} |->
                         CachedValue(fe, t)]
    /\ reloadHits' # NoHits
    /\ lastExtract' = NoExtract
    /\ UNCHANGED <<dims, execCount, returned, resolved>>
    /\ UNCHANGED notCache

NextCache ==
    \/ \E t \in TcIds, o \in ExecOutcomes : Extract(t, o)
    \/ Reload

SpecCache == InitCache /\ [][NextCache]_vars

----------------------------------------------------------------------------
\* Identity: get_id and from_dict(get_dict_representation())

InitIdentity ==
    /\ RestQuiet
    /\ CacheQuiet /\ SamplerQuiet /\ FilterQuiet /\ StageQuiet /\ ClassifyQuiet
    /\ subject \in SampleEntities
    /\ peer \in {e \in SampleEntities : Tag(e) = Tag(subject)}
    /\ dirState = "dir"
    /\ StoreQuiet

\* subject.get_id() and peer.get_id()
ComputeIds ==
    /\ ids = NoIds
    /\ ids' = <<GetId(subject), GetId(peer)>>
    /\ UNCHANGED <<subject, dirState, files, todo, saveState, saveCall, toFile, loaded, peer>>
    /\ UNCHANGED notStore

\* cls.from_dict(subject.get_dict_representation())
RebuildFromDict ==
    /\ loaded = NotLoaded
    /\ \E d \in {DictRep(subject, "omitted")} :
          loaded' = <<"dict", FromDict(Tag(subject), d)>>
    /\ UNCHANGED <<subject, dirState, files, todo, saveState, saveCall, toFile, peer, ids>>
    /\ UNCHANGED notStore

NextIdentity == ComputeIds \/ RebuildFromDict

SpecIdentity == InitIdentity /\ [][NextIdentity]_vars

----------------------------------------------------------------------------
\* Persistence: save, to_file, from_file

InitStore ==
    /\ RestQuiet
    /\ CacheQuiet /\ SamplerQuiet /\ FilterQuiet /\ StageQuiet /\ ClassifyQuiet
    /\ subject \in SampleEntities
    /\ peer = None
    /\ dirState \in {"missing", "dir", "file"}
    /\ StoreQuiet

\* subject.save(save_dir, create) is called
StartSave(create) ==
    /\ saveState # "running"
    /\ todo' = SavePlan(subject, create)
    /\ saveState' = "running"
    /\ saveCall' = <<create, dirState>>
    /\ UNCHANGED <<subject, dirState, files, toFile, loaded, peer, ids>>
    /\ UNCHANGED notStore

\* the next statement of the running save
SaveStep ==
    /\ saveState = "running"
    /\ \E step \in {Head(todo)} :
       \E out \in {CASE step[1] = "check" ->
                          <<CheckSaveDir(dirState, step[3])[1], files,
                            CheckSaveDir(dirState, step[3])[2]>>
                     [] step[1] = "noattr" -> <<dirState, files, "AttributeError">>
                     [] step[1] = "open" -> <<dirState>> \o OpenSaveFile(files, step[2])
                     [] step[1] = "dump" -> <<dirState>> \o DumpSaveFile(files, step[2])} :
           /\ dirState' = out[1]
           /\ files' = out[2]
           /\ IF out[3] # "ok"
              THEN todo' = <<>> /\ saveState' = out[3]
              ELSE /\ todo' = Tail(todo)
                   /\ saveState' = IF Tail(todo) = <<>> THEN "done" ELSE "running"
    /\ UNCHANGED <<subject, saveCall, toFile, loaded, peer, ids>>
    /\ UNCHANGED notStore

\* subject.to_file(file_path)
ToFile ==
    /\ \E content \in {ToFileContent(subject)} :
          /\ content # toFile
          /\ toFile' = content
    /\ UNCHANGED <<subject, dirState, files, todo, saveState, saveCall, loaded, peer, ids>>
    /\ UNCHANGED notStore

\* cls.from_file(file_path) of the file to_file wrote
LoadInline ==
    /\ toFile # NoFile
    /\ \E obj \in {FromFile(Tag(subject), toFile)} :
          /\ loaded # <<"inline", obj>>
          /\ loaded' = <<"inline", obj>>
    /\ UNCHANGED <<subject, dirState, files, todo, saveState, saveCall, toFile, peer, ids>>
    /\ UNCHANGED notStore

\* cls.from_file(<save_dir>/<ClassName>_<ID>.json) of the file save wrote
LoadSaved ==
    /\ saveState \notin {"idle", "running"}
    /\ \E name \in {SaveName(subject)} :
          /\ ~IsErr(name[2])
          /\ name \in DOMAIN files
          /\ \E obj \in {FromFile(Tag(subject), files[name])} :
                /\ loaded # <<"by_id", obj>>
                /\ loaded' = <<"by_id", obj>>
    /\ UNCHANGED <<subject, dirState, files, todo, saveState, saveCall, toFile, peer, ids>>
    /\ UNCHANGED notStore

NextStore ==
    \/ \E create \in BOOLEAN : StartSave(create)
    \/ SaveStep
    \/ ToFile
    \/ LoadInline
    \/ LoadSaved

SpecStore == InitStore /\ [][NextStore]_vars

----------------------------------------------------------------------------
\* Specification: the key_starts_with stage on lists of feature dicts

MaxRecords == 2         \* feature dicts in the list

\* feature names and prefixes, as sequences of characters
FeatureKeys == <<StrV(<<"o">>), StrV(<<"o", "r">>), StrV(<<"w">>)>>
Prefixes ==
    {StrV(<<>>), StrV(<<"o">>), StrV(<<"o", "r">>), StrV(<<"o", "r", "i">>),
     StrV(<<"w">>)}

\* the items of FeatureKeys picked by held, in order, with the values given
RECURSIVE ItemsOf(_, _, _)
ItemsOf(i, held, value) ==
    IF i > Len(FeatureKeys) THEN <<>>
    ELSE IF i \in held
    THEN <<<<FeatureKeys[i], IntV(value[i])>>>> \o ItemsOf(i + 1, held, value)
    ELSE ItemsOf(i + 1, held, value)

FeatureDicts ==
    {DictV(ItemsOf(1, held, value)) :
        held \in SUBSET (1..Len(FeatureKeys)),
        value \in {<<1, 1, 1>>, <<1, 2, 1>>}}

FeatureLists ==
    {ListV(l) : l \in UNION {[1..n -> FeatureDicts] : n \in 0..MaxRecords}}

InitFilter ==
    /\ RestQuiet
    /\ StoreQuiet /\ CacheQuiet /\ SamplerQuiet
    /\ subject = None /\ peer = None /\ dirState = "dir"
    /\ records \in FeatureLists
    /\ probe = None
    /\ included = None
    /\ excluded = None
    /\ StageQuiet /\ ClassifyQuiet

\* FeatureFilter._filter_key_starts_with(records, prefix, invert=False)
Include(prefix) ==
    /\ probe \in {None, prefix}
    /\ included = None
    /\ probe' = prefix
    /\ included' = filter_key_starts_with(records, prefix, FALSE)
    /\ UNCHANGED <<records, excluded>>
    /\ UNCHANGED notFilter

\* FeatureFilter._filter_key_starts_with(records, prefix, invert=True)
Exclude(prefix) ==
    /\ probe \in {None, prefix}
    /\ excluded = None
    /\ probe' = prefix
    /\ excluded' = filter_key_starts_with(records, prefix, TRUE)
    /\ UNCHANGED <<records, included>>
    /\ UNCHANGED notFilter

NextFilter ==
    \/ \E prefix \in Prefixes : Include(prefix)
    \/ \E prefix \in Prefixes : Exclude(prefix)

SpecFilter == InitFilter /\ [][NextFilter]_vars

----------------------------------------------------------------------------
\* Specification: random_choice stages called through filter(), as
\* test_random_choice builds them: one stage per increase_seed and invert

MaxStageCalls == 2      \* filter() calls per stage

\* feature dicts with 0..3 fields; the last gives "or" another value
StageDicts ==
    {DictV(ItemsOf(1, {}, <<1, 2, 1>>)), DictV(ItemsOf(1, {1}, <<1, 2, 1>>)),
     DictV(ItemsOf(1, {1, 2}, <<1, 2, 1>>)), DictV(ItemsOf(1, {1, 2, 3}, <<1, 1, 1>>))}

StageLists ==
    {ListV(l) : l \in UNION {[1..n -> StageDicts] : n \in 0..MaxRecords}}

\* fraction is a multiple of 1/CountDen, some of them outside [0, 1]
Fractions == {<<"float", q>> : q \in (-1)..(CountDen + 1)}

StageKeys == BOOLEAN \X BOOLEAN       \* <<increase_seed, invert>>

\* FeatureFilter("random_choice", fraction, random_seed=seed,
\*               increase_seed=increase, invert=invert, subfilters=[])
RandomChoiceStage(fraction, seed, increase, invert) ==
    NewFeatureFilter("random_choice", <<fraction>>, <<>>,
                     DictV(<< <<StrV("random_seed"), IntV(seed)>>,
                              <<StrV("increase_seed"), BoolV(increase)>>,
                              <<StrV("invert"), BoolV(invert)>> >>))

InitStage ==
    /\ RestQuiet
    /\ StoreQuiet /\ CacheQuiet /\ SamplerQuiet /\ FilterQuiet /\ ClassifyQuiet
    /\ subject = None /\ peer = None /\ dirState = "dir"
    /\ dataset \in StageLists
    /\ hashOrder \in {"forward", "reverse"}
    /\ \E fraction \in Fractions, seed \in 0..MaxSeed :
          stages = [c \in StageKeys |-> RandomChoiceStage(fraction, seed, c[1], c[2])]
    /\ outputs = [c \in StageKeys |-> <<>>]
    /\ ctor = None
    /\ ctorRun = None

\* stages[c].filter(dataset)
RunStage(c) ==
    /\ Len(outputs[c]) < MaxStageCalls
    /\ \E r \in {filter(stages[c], dataset, hashOrder)} :
          /\ stages' = [stages EXCEPT ![c] = r[2]]
          /\ dataset' = r[3]
          /\ outputs' = [outputs EXCEPT
                           ![c] = Append(@, <<DictGet(Val(stages[c])[3],
                                                      StrV("random_seed")), r[1]>>)]
    /\ UNCHANGED <<hashOrder, ctor, ctorRun>>
    /\ UNCHANGED notStage

NextStage == \E c \in StageKeys : RunStage(c)

SpecStage == InitStage /\ [][NextStage]_vars

----------------------------------------------------------------------------
\* Specification: stages constructed by name, directly or through from_dict,
\* and then called

\* stage names asked for: the four stages and two names that are none
StageNames == AvailableFilters \cup {"unknown", "_filter_do_nothing"}

\* positional arguments: none, a prefix, importances and a threshold, a fraction
StageArgs ==
    {<<>>, <<StrV(<<"o">>)>>,
     <<DictV(<< <<FeatureKeys[1], <<"float", 1>>>> >>), <<"float", 2>>>>,
     <<<<"float", 1>>>>}

StageKwargs == {DictV(<<>>), DictV(<< <<StrV("invert"), BoolV(TRUE)>> >>)}

StageSubfilters ==
    {<<>>, <<NewFeatureFilter("key_starts_with", <<StrV(<<"o", "r">>)>>, <<>>, DictV(<<>>))>>}

\* the dict from_dict is given: the representation of a stage, naming name
StageDict(name, args, subfilters, kwargs) ==
    DictSet(DictRep(NewFeatureFilter("do_nothing", args, subfilters, kwargs), "false"),
            StrV("filter_name"), StrV(name))

InitConstruct ==
    /\ RestQuiet
    /\ StoreQuiet /\ CacheQuiet /\ SamplerQuiet /\ FilterQuiet /\ ClassifyQuiet
    /\ subject = None /\ peer = None /\ dirState = "dir"
    /\ dataset \in StageLists
    /\ hashOrder \in {"forward", "reverse"}
    /\ stages = None
    /\ outputs = None
    /\ ctor = None
    /\ ctorRun = None

\* FeatureFilter(name, *args, subfilters=subfilters, **kwargs), or
\* FeatureFilter.from_dict of the dict naming the same
Construct(name, how, args, subfilters, kwargs) ==
    /\ ctor = None
    /\ \E outcome \in {IF how = "direct"
                       THEN NewFeatureFilter(name, args, subfilters, kwargs)
                       ELSE FeatureFilterFromDict(StageDict(name, args, subfilters, kwargs))} :
          ctor' = <<name, how, outcome>>
    /\ UNCHANGED <<dataset, hashOrder, stages, outputs, ctorRun>>
    /\ UNCHANGED notStage

\* filter(dataset) of the constructed stage
RunConstructed ==
    /\ ctor # None
    /\ IsObject(ctor[3])
    /\ ctorRun = None
    /\ \E r \in {filter(ctor[3], dataset, hashOrder)} :
          /\ ctor' = <<ctor[1], ctor[2], r[2]>>
          /\ dataset' = r[3]
          /\ ctorRun' = <<Val(ctor[3])[1], r[1]>>
    /\ UNCHANGED <<hashOrder, stages, outputs>>
    /\ UNCHANGED notStage

NextConstruct ==
    \/ \E name \in StageNames, how \in {"direct", "from_dict"}, args \in StageArgs,
          subfilters \in StageSubfilters, kwargs \in StageKwargs :
          Construct(name, how, args, subfilters, kwargs)
    \/ RunConstructed

SpecConstruct == InitConstruct /\ [][NextConstruct]_vars

----------------------------------------------------------------------------
\* Specification: Classifier.classify on a collection

MaxRounds == 2          \* rounds of a classify call

\* <<rounds, train_set_size, set_size_fractional, metric>>
ClassifyCalls == (0..MaxRounds) \X Counts \X BOOLEAN \X {"pcr", "nar"}

InitClassify ==
    /\ RestQuiet
    /\ StoreQuiet /\ CacheQuiet /\ FilterQuiet /\ StageQuiet
    /\ subject = None /\ peer = None /\ dirState = "dir"
    /\ tcc \in Collections
    /\ globalRandom = 0
    /\ pinned = NoCall
    /\ repeated = NotRepeated
    /\ classifier \in 0..MaxSeed
    /\ classified = NotClassified
    /\ csvFile = <<>>
    /\ csvLoad = NoCsvLoad

\* Classifier(classifier).classify(tcc, fe, ff, rounds=..., train_set_size=...,
\* set_size_fractional=..., metric=...)
Classify(call) ==
    /\ classified[1] = "none"
    /\ \E outcome \in {classify(classifier, Val(tcc)[1], call[1], call[2], call[3], call[4])} :
          classified' = <<"done", call, outcome>>
    /\ UNCHANGED <<classifier, tcc, globalRandom, pinned, repeated>>
    /\ UNCHANGED notClassify

NextClassify == \E call \in ClassifyCalls : Classify(call)

SpecClassify == InitClassify /\ [][NextClassify]_vars

----------------------------------------------------------------------------
\* Specification: TestCaseCollection.from_csv on a csv file

MaxRows == 3            \* lines of the csv file

\* a line: no column, or a scan name, a label and perhaps a nar column
CsvRows ==
    {<<>>}
    \cup {<<scan, label>> : scan \in {"s1", "s2", "gone"}, label \in {"pCR", "Non-pCR"}}
    \cup {<<scan, "pCR", nar>> : scan \in {"s1", "gone"}, nar \in {"1", "x"}}

InitCsv ==
    /\ RestQuiet
    /\ StoreQuiet /\ CacheQuiet /\ SamplerQuiet /\ FilterQuiet /\ StageQuiet
    /\ subject = None /\ peer = None /\ dirState = "dir"
    /\ classifier = 0
    /\ classified = NotClassified
    /\ csvFile \in UNION {[1..n -> CsvRows] : n \in 0..MaxRows}
    /\ csvLoad = NoCsvLoad

\* TestCaseCollection.from_csv(csv_path, skip_invalid=skip_invalid)
FromCsv(skip_invalid) ==
    /\ csvLoad[1] = "none"
    /\ \E outcome \in {from_csv(csvFile, skip_invalid)} :
          csvLoad' = <<"done", skip_invalid, outcome>>
    /\ UNCHANGED csvFile
    /\ UNCHANGED notCsv

NextCsv == \E skip_invalid \in BOOLEAN : FromCsv(skip_invalid)

SpecCsv == InitCsv /\ [][NextCsv]_vars

----------------------------------------------------------------------------
\* Specification: TestCaseCollection.get_all_but on a collection

MaxChosen == 2          \* IDs in the list given to get_all_but

\* the IDs of the sample test cases and one ID no test case has
ChosenIds == {StrV("t1"), StrV("t2"), StrV("t3"), StrV("zz")}

notComplement ==
    <<storeVars, cacheVars, filterVars, stageVars, classifyVars, csvVars, convertVars,
      subfilterVars, saverVars, roundVars>>

InitComplement ==
    /\ ConvertQuiet /\ SubfilterQuiet /\ SaverQuiet /\ RoundQuiet
    /\ StoreQuiet /\ CacheQuiet /\ FilterQuiet /\ StageQuiet /\ ClassifyQuiet
    /\ subject = None /\ peer = None /\ dirState = "dir"
    /\ tcc \in Collections
    /\ globalRandom = 0
    /\ pinned = NoCall
    /\ repeated = NotRepeated
    /\ complement = NoComplement

\* tcc.get_all_but(test_case_ids)
GetAllBut(test_case_ids) ==
    /\ complement[1] = "none"
    /\ complement' = <<"done", test_case_ids, get_all_but(Val(tcc)[1], test_case_ids)>>
    /\ UNCHANGED <<tcc, globalRandom, pinned, repeated>>
    /\ UNCHANGED notComplement

NextComplement ==
    \E test_case_ids \in UNION {[1..n -> ChosenIds] : n \in 0..MaxChosen} :
        GetAllBut(test_case_ids)

SpecComplement == InitComplement /\ [][NextComplement]_vars

----------------------------------------------------------------------------
\* Specification: FeatureExtractor.denumpyify on what the extractor returned

MaxNesting == 2         \* containers around a scalar in an extractor result

\* Python scalars, numpy scalars and an array
RawScalars ==
    {IntV(1), <<"float", 1>>, StrV("a"), BoolV(TRUE), None,
     <<"np.float64", 1>>, <<"np.int64", 1>>, <<"np.float32", 1>>,
     <<"ndarray", << <<"float", 1>> >> >>}

RawKeys == {StrV("a"), <<"np.float64", 1>>, TupleV(<<IntV(1)>>)}

RECURSIVE RawValues(_)
RawValues(nesting) ==
    IF nesting = 0 THEN RawScalars
    ELSE LET inner == RawValues(nesting - 1)
         IN  inner \cup {ListV(<<x>>) : x \in inner} \cup {TupleV(<<x>>) : x \in inner}
                   \cup {DictV(<< <<k, x>> >>) : k \in RawKeys, x \in inner}

notConvert ==
    <<storeVars, cacheVars, samplerVars, filterVars, stageVars, classifyVars, csvVars,
      complementVars, subfilterVars, saverVars, roundVars>>

InitConvert ==
    /\ SubfilterQuiet /\ SaverQuiet /\ RoundQuiet
    /\ StoreQuiet /\ CacheQuiet /\ SamplerQuiet /\ FilterQuiet /\ StageQuiet
    /\ ClassifyQuiet /\ ComplementQuiet
    /\ subject = None /\ peer = None /\ dirState = "dir"
    /\ raw \in RawValues(MaxNesting)
    /\ jsonValue = NotConverted

\* converted_features = FeatureExtractor.denumpyify(features)
Convert ==
    /\ jsonValue[1] = "none"
    /\ jsonValue' = <<"done", denumpyify(raw)>>
    /\ UNCHANGED raw
    /\ UNCHANGED notConvert

NextConvert == Convert

SpecConvert == InitConvert /\ [][NextConvert]_vars

----------------------------------------------------------------------------
\* Specification: execute_subfilters of a stage with a list of subfilters

MaxChain == 2           \* subfilters of the stage

\* subfilters: each kind of stage, and one that has a subfilter itself
ChainPool ==
    {NewFeatureFilter("do_nothing", <<>>, <<>>, DictV(<<>>)),
     NewFeatureFilter("key_starts_with", <<StrV(<<"o">>)>>, <<>>, DictV(<<>>)),
     NewFeatureFilter("key_starts_with", <<StrV(<<"o", "r">>)>>, <<>>,
                      DictV(<< <<StrV("invert"), BoolV(TRUE)>> >>)),
     NewFeatureFilter("importance_threshold",
                      <<DictV(<< <<FeatureKeys[1], <<"float", 1>>>> >>), <<"float", 2>>>>,
                      <<>>, DictV(<<>>)),
     RandomChoiceStage(<<"float", 1>>, 0, TRUE, FALSE),
     NewFeatureFilter("do_nothing", <<>>,
                      <<NewFeatureFilter("key_starts_with", <<StrV(<<"w">>)>>, <<>>,
                                         DictV(<<>>))>>,
                      DictV(<<>>))}

notSubfilter ==
    <<storeVars, cacheVars, samplerVars, filterVars, classifyVars, csvVars,
      complementVars, convertVars, saverVars, roundVars>>

InitSubfilter ==
    /\ SaverQuiet /\ RoundQuiet
    /\ StoreQuiet /\ CacheQuiet /\ SamplerQuiet /\ FilterQuiet /\ ClassifyQuiet
    /\ ComplementQuiet /\ ConvertQuiet
    /\ subject = None /\ peer = None /\ dirState = "dir"
    /\ dataset \in StageLists
    /\ hashOrder \in {"forward", "reverse"}
    /\ stages = None
    /\ outputs = None
    /\ ctor = None
    /\ ctorRun = None
    /\ chain \in {NewFeatureFilter("do_nothing", <<>>, subs, DictV(<<>>)) :
                     subs \in UNION {[1..n -> ChainPool] : n \in 0..MaxChain}}
    /\ merged = NotMerged

\* the stage with only its first n subfilters
FirstSubfilters(ff, n) ==
    <<"FeatureFilter", <<Val(ff)[1], Val(ff)[2], Val(ff)[3], SubSeq(Val(ff)[4], 1, n)>>>>

\* chain.execute_subfilters(dataset)
ExecuteSubfilters ==
    /\ merged[1] = "none"
    /\ \E r \in {execute_subfilters(chain, dataset, hashOrder)} :
          /\ chain' = <<"FeatureFilter",
                        <<Val(chain)[1], Val(chain)[2], Val(chain)[3],
                          IF Val(chain)[4] = <<>> THEN <<>> ELSE r[2]>>>>
          /\ dataset' = r[3]
          /\ merged' =
               <<"done", dataset, r[1], r[3],
                 [k \in 1..Len(Val(chain)[4]) |->
                     execute_subfilters(FirstSubfilters(chain, k - 1), dataset,
                                        hashOrder)[3]],
                 chain>>
    /\ UNCHANGED <<hashOrder, stages, outputs, ctor, ctorRun>>
    /\ UNCHANGED notSubfilter

NextSubfilter == ExecuteSubfilters

SpecSubfilter == InitSubfilter /\ [][NextSubfilter]_vars

----------------------------------------------------------------------------
\* Specification: savers that call save() into the same save_dir at the same
\* time.  A saver runs the steps of SavePlan in order; the directory check is
\* the calls it makes: os.path.exists, then os.mkdir or os.path.isdir.  Steps
\* of different savers interleave.

MaxSavers == 2          \* savers running at the same time

Savers == 1..MaxSavers

\* a stage without subfilters and one whose subfilter is saved first
SaverEntities ==
    {NewFeatureFilter("do_nothing", <<>>, <<>>, DictV(<<>>)),
     NewFeatureFilter("do_nothing", <<>>,
                      <<NewFeatureFilter("key_starts_with", <<StrV(<<"o">>)>>, <<>>,
                                         DictV(<<>>))>>,
                      DictV(<<>>))}

notSaver ==
    <<cacheVars, samplerVars, filterVars, stageVars, classifyVars, csvVars,
      complementVars, convertVars, subfilterVars, roundVars>>

InitSaver ==
    /\ RoundQuiet
    /\ StoreQuiet /\ CacheQuiet /\ SamplerQuiet /\ FilterQuiet /\ StageQuiet
    /\ ClassifyQuiet /\ ComplementQuiet /\ ConvertQuiet /\ SubfilterQuiet
    /\ subject = None /\ peer = None
    /\ dirState \in {"missing", "dir", "file"}
    /\ dirBefore = dirState
    /\ \E entity \in [Savers -> SaverEntities], create \in [Savers -> BOOLEAN] :
          savers = [p \in Savers |->
                      [entity |-> entity[p], create |-> create[p],
                       todo |-> SavePlan(entity[p], create[p]), state |-> "running",
                       sawMissing |-> FALSE, made |-> FALSE, opened |-> 0]]

\* saver p is at the step named kind
SaverAt(p, kind) ==
    /\ savers[p].state = "running"
    /\ Head(savers[p].todo)[1] = kind

\* saver p goes on to its next step, or ends with the exception
SaverGoesOn(p, outcome, fields) ==
    savers' = [savers EXCEPT
                 ![p] = [fields EXCEPT
                           !.todo = IF outcome = "ok" THEN Tail(@) ELSE <<>>,
                           !.state = IF outcome # "ok" THEN outcome
                                     ELSE IF Tail(savers[p].todo) = <<>> THEN "done"
                                     ELSE "running"]]

\* if not os.path.exists(save_dir): ... raise FileNotFoundError
SaverExists(p) ==
    /\ SaverAt(p, "check")
    /\ \E step \in {Head(savers[p].todo)} :
          IF dirState = "missing"
          THEN IF step[3]
               THEN savers' = [savers EXCEPT
                                 ![p].todo = << <<"mkdir", step[2], step[3]>> >> \o Tail(@),
                                 ![p].sawMissing = TRUE]
               ELSE SaverGoesOn(p, "FileNotFoundError", savers[p])
          ELSE savers' = [savers EXCEPT
                            ![p].todo = << <<"isdir", step[2], step[3]>> >> \o Tail(@)]
    /\ UNCHANGED <<dirState, files, dirBefore>>
    /\ UNCHANGED <<subject, todo, saveState, saveCall, toFile, loaded, peer, ids>>
    /\ UNCHANGED notSaver

\* os.mkdir(save_dir)
SaverMkdir(p) ==
    /\ SaverAt(p, "mkdir")
    /\ \E out \in {mkdir(dirState)} :
          /\ dirState' = out[1]
          /\ SaverGoesOn(p, out[2], [savers[p] EXCEPT !.made = (out[2] = "ok")])
    /\ UNCHANGED <<files, dirBefore>>
    /\ UNCHANGED <<subject, todo, saveState, saveCall, toFile, loaded, peer, ids>>
    /\ UNCHANGED notSaver

\* elif not os.path.isdir(save_dir): raise FileExistsError
SaverIsDir(p) ==
    /\ SaverAt(p, "isdir")
    /\ SaverGoesOn(p, IF dirState = "dir" THEN "ok" ELSE "FileExistsError", savers[p])
    /\ UNCHANGED <<dirState, files, dirBefore>>
    /\ UNCHANGED <<subject, todo, saveState, saveCall, toFile, loaded, peer, ids>>
    /\ UNCHANGED notSaver

\* with open(save_path, "w") as output_file
SaverOpen(p) ==
    /\ SaverAt(p, "open")
    /\ \E out \in {OpenSaveFile(files, Head(savers[p].todo)[2])} :
          /\ files' = out[1]
          /\ SaverGoesOn(p, out[2], [savers[p] EXCEPT !.opened = @ + 1])
    /\ UNCHANGED <<dirState, dirBefore>>
    /\ UNCHANGED <<subject, todo, saveState, saveCall, toFile, loaded, peer, ids>>
    /\ UNCHANGED notSaver

\* json.dump(save_data, output_file)
SaverDump(p) ==
    /\ SaverAt(p, "dump")
    /\ \E out \in {DumpSaveFile(files, Head(savers[p].todo)[2])} :
          /\ files' = out[1]
          /\ SaverGoesOn(p, out[2], savers[p])
    /\ UNCHANGED <<dirState, dirBefore>>
    /\ UNCHANGED <<subject, todo, saveState, saveCall, toFile, loaded, peer, ids>>
    /\ UNCHANGED notSaver

NextSaver ==
    \E p \in Savers :
        \/ SaverExists(p)
        \/ SaverMkdir(p)
        \/ SaverIsDir(p)
        \/ SaverOpen(p)
        \/ SaverDump(p)

SpecSaver == InitSaver /\ [][NextSaver]_vars

----------------------------------------------------------------------------
\* Specification: the filtering of train and test features in the rounds of
\* Classifier.classify

\* the stage given to classify: random_choice stages, a stage with a
\* random_choice subfilter, and a stage that draws nothing
RoundStages ==
    {RandomChoiceStage(<<"float", 1>>, seed, increase, invert) :
        seed \in 0..MaxSeed, increase \in BOOLEAN, invert \in BOOLEAN}
    \cup {NewFeatureFilter("do_nothing", <<>>,
                           <<RandomChoiceStage(<<"float", 1>>, 0, increase, FALSE)>>,
                           DictV(<<>>)) : increase \in BOOLEAN}
    \cup {NewFeatureFilter("key_starts_with", <<StrV(<<"o">>)>>, <<>>, DictV(<<>>))}

\* the features of n test cases: every test case has the same fields
RoundFeatures ==
    {ListV([i \in 1..n |-> d]) :
        n \in 1..MaxRecords, d \in {d \in StageDicts : Len(Val(d)) >= 2}}

notRound ==
    <<storeVars, cacheVars, samplerVars, filterVars, classifyVars, csvVars,
      complementVars, convertVars, subfilterVars, saverVars>>

InitRound ==
    /\ StoreQuiet /\ CacheQuiet /\ SamplerQuiet /\ FilterQuiet /\ ClassifyQuiet
    /\ ComplementQuiet /\ ConvertQuiet /\ SubfilterQuiet /\ SaverQuiet
    /\ subject = None /\ peer = None /\ dirState = "dir"
    /\ dataset = None
    /\ hashOrder \in {"forward", "reverse"}
    /\ stages = None
    /\ outputs = None
    /\ ctor = None
    /\ ctorRun = None
    /\ roundStage \in RoundStages
    /\ \E train \in RoundFeatures, test \in RoundFeatures :
          /\ KeysOf(Val(train)[1]) = KeysOf(Val(test)[1])
          /\ roundInput = <<train, test>>
    /\ roundLog = NoRounds

\* the rounds of classify(tcc, fe, roundStage, rounds=rounds, ...), as far as
\* ff.filter is concerned
FilterInRounds(rounds) ==
    /\ roundLog[1] = "none"
    /\ \E r \in {FilterRounds(roundStage, roundInput[1], roundInput[2], 0, rounds,
                               hashOrder, <<>>)} :
          /\ roundLog' = <<"done", rounds, r[1]>>
          /\ roundStage' = r[2]
    /\ UNCHANGED roundInput
    /\ UNCHANGED stageVars
    /\ UNCHANGED notRound

NextRound == \E rounds \in 0..MaxRounds : FilterInRounds(rounds)

SpecRound == InitRound /\ [][NextRound]_vars

----------------------------------------------------------------------------
\* Claims about identity and persistence

\* C1: two entities whose dict representations are equal as mappings, whatever
\* the order their keys were inserted in, have the same get_id().
C1_EqualRepsEqualIds ==
    (/\ ids # NoIds
     /\ PyEq(DictRep(subject, "omitted"), DictRep(peer, "omitted")))
    => ids[1] = ids[2]

\* C2: what from_file rebuilds from the file to_file (inline) or save (by ID)
\* wrote is an entity whose dict representation equals the original's.
C2_RoundTrip ==
    loaded[1] \in {"inline", "by_id"}
    => /\ IsObject(loaded[2])
       /\ PyEq(DictRep(loaded[2], "omitted"), DictRep(subject, "omitted"))

\* C3: FeatureFilter.from_dict(f.get_dict_representation()) is made without
\* error and has the get_id() of f, with or without subfilters.
C3_FromDictSameId ==
    (loaded[1] = "dict" /\ Tag(subject) = "FeatureFilter")
    => /\ IsObject(loaded[2])
       /\ GetId(loaded[2]) = GetId(subject)

\* C4: save(save_dir, create=True) of a Classification into a directory that
\* does not exist yet ends without error, leaving one complete JSON file for
\* the Classification and one for each of tcc, fe and ff.
C4_SaveCompletes ==
    (/\ Tag(subject) = "Classification"
     /\ saveCall = <<TRUE, "missing">>
     /\ saveState \notin {"idle", "running"})
    => /\ saveState = "done"
       /\ \A e \in {subject, Val(subject)[1], Val(subject)[2], Val(subject)[3]} :
             Tag(FileAt(files, SaveName(e))) = "json"

----------------------------------------------------------------------------
\* Claims about the extractor's cache

C6_ReloadHit ==
    (lastExtract # NoExtract /\ lastExtract[1] \in DOMAIN reloadHits)
    => /\ ~lastExtract[3]
       /\ lastExtract[4] = reloadHits[lastExtract[1]]

----------------------------------------------------------------------------
\* Claims about get_equal_sample

Cases(coll) == Val(coll)[1]
\* the labels the collection's test cases carry for a metric
LabelsOf(coll, metric) ==
    {CategoryOf(Cases(coll)[i], metric) : i \in 1..Len(Cases(coll))} \ {None}
\* the test case IDs carrying label l
IdsWith(coll, metric, l) ==
    {Val(Cases(coll)[i])[1] : i \in {j \in 1..Len(Cases(coll)) :
                                       CategoryOf(Cases(coll)[j], metric) = l}}
\* the size of the smallest category, 0 when no test case carries a label
SmallestCategory(coll, metric) ==
    LET sizes == {Cardinality(IdsWith(coll, metric, l)) : l \in LabelsOf(coll, metric)}
    IN  IF sizes = {} THEN 0
        ELSE CHOOSE m \in sizes : \A n \in sizes : m <= n
\* the number of IDs per category a call asks for
Requested(call, coll) ==
    IF call[2] THEN RoundedShare(call[1], SmallestCategory(coll, call[3]))
    ELSE IF Tag(call[1]) = "int" THEN Val(call[1])
    ELSE (Val(call[1]) + CountDen - 1) \div CountDen     \* a float count, rounded up

\* C7: a second get_equal_sample call with the same count, fractional, metric
\* and random_seed on the same collection returns the list the first returned,
\* whatever sampling calls were made before and in between; the shared
\* generator of the random module is never used.
C7_SampleDeterministic ==
    /\ repeated # NotRepeated => repeated = pinned[2]
    /\ globalRandom = 0

\* a repeated call returned a sample of at least two IDs
C7_Witness == repeated[1] = "ok" /\ Len(repeated[2]) >= 2

\* C8: a returned sample holds exactly to_choose IDs of every category of the
\* metric, no ID twice, no ID without a label, to_choose times the number of
\* categories in all.
C8_SampleBalanced ==
    (pinned # NoCall /\ pinned[2][1] = "ok")
    => LET call == pinned[1]
           chosen == pinned[2][2]
           labels == LabelsOf(tcc, call[3])
           to_choose == Requested(call, tcc)
       IN  /\ \A l \in labels :
                 Cardinality({i \in 1..Len(chosen) :
                                 chosen[i] \in IdsWith(tcc, call[3], l)}) = to_choose
           /\ \A i \in 1..Len(chosen), j \in 1..Len(chosen) :
                 i # j => chosen[i] # chosen[j]
           /\ \A i \in 1..Len(chosen) : \E l \in labels :
                 chosen[i] \in IdsWith(tcc, call[3], l)
           /\ Len(chosen) = to_choose * Cardinality(labels)

\* counts {true: 2, false: 1}, count=1, fractional=False, metric="pcr": 2 IDs
C8_Witness ==
    /\ pinned # NoCall
    /\ pinned[1][1] = <<"int", 1>> /\ ~pinned[1][2] /\ pinned[1][3] = "pcr"
    /\ Cardinality(IdsWith(tcc, "pcr", BoolV(TRUE))) = 2
    /\ Cardinality(IdsWith(tcc, "pcr", BoolV(FALSE))) = 1
    /\ \E i \in 1..Len(Cases(tcc)) : Tag(Val(Cases(tcc)[i])[3]) = "null"
    /\ pinned[2][1] = "ok"
    /\ Len(pinned[2][2]) = 2

\* the call asks for more IDs per category than the smallest category holds
Exceeds(call, coll) ==
    /\ call[3] \in {"pcr", "nar"}
    /\ LabelsOf(coll, call[3]) # {}
    /\ Requested(call, coll) > SmallestCategory(coll, call[3])

\* C9: a call asking for more IDs per category than the smallest category
\* holds raises before drawing from any category: nothing is selected and the
\* collection is unchanged.
C9_NoPartialSelection ==
    [][(pinned = NoCall /\ pinned' # NoCall /\ Exceeds(pinned'[1], tcc))
         => /\ pinned'[2][1] # "ok"
            /\ pinned'[2][2] = <<>>
            /\ pinned'[2][3] = 0
            /\ tcc' = tcc]_vars

\* an int count above the smallest of several categories was refused
C9_Witness ==
    /\ pinned # NoCall
    /\ Exceeds(pinned[1], tcc)
    /\ Tag(pinned[1][1]) = "int" /\ ~pinned[1][2]
    /\ Cardinality(LabelsOf(tcc, pinned[1][3])) >= 2
    /\ pinned[2] = <<"ValueError", <<>>, 0>>

----------------------------------------------------------------------------
\* Claims about the key_starts_with stage

\* C10: for every list of feature dicts and every prefix, the results of
\* key_starts_with with invert=False and with invert=True hold one dict per
\* input dict, the two dicts of a record share no key, and merging them gives
\* the original record: every field is on exactly one side with its value.
C10_PrefixSplit ==
    (included # None /\ excluded # None)
    => /\ Len(Val(included)) = Len(Val(records))
       /\ Len(Val(excluded)) = Len(Val(records))
       /\ \A r \in 1..Len(Val(records)) :
             LET kept == Val(included)[r]
                 rest == Val(excluded)[r]
             IN  /\ DictKeys(kept) \cap DictKeys(rest) = {}
                 /\ PyEq(DictUpdate(kept, Val(rest)), Val(records)[r])
                 /\ \A k \in DictKeys(Val(records)[r]) :
                       LET side == IF DictHas(kept, k) THEN kept ELSE rest
                       IN  DictGet(side, k) = DictGet(Val(records)[r], k)

\* both runs split some record into two non-empty sides
C10_Witness ==
    /\ included # None /\ excluded # None
    /\ \E r \in 1..Len(Val(records)) :
          /\ Val(Val(included)[r]) # <<>>
          /\ Val(Val(excluded)[r]) # <<>>

\* ---- claims about random_choice stages (SpecStage)

\* the fraction a stage was made with, and whether it lies in [0, 1]
FractionOf(c) == Val(stages[c])[2][1]
InUnit(fraction) == Val(fraction) >= 0 /\ Val(fraction) <= CountDen

\* every record has exactly the first record's field names
Homogeneous(features) ==
    \A i \in 1..Len(Val(features)) :
        DictKeys(Val(features)[i]) = DictKeys(Val(features)[1])

\* [{**a, **b} for a, b in zip(inverted, plain)]
MergeRecords(inverted, plain) ==
    [i \in 1..(IF Len(inverted) < Len(plain) THEN Len(inverted) ELSE Len(plain)) |->
        DictUpdate(inverted[i], Val(plain[i]))]

\* both stages of one increase_seed value have made their n-th call
BothCalled(increase, n) ==
    /\ n <= Len(outputs[<<increase, TRUE>>])
    /\ n <= Len(outputs[<<increase, FALSE>>])
    /\ outputs[<<increase, TRUE>>][n][1] = outputs[<<increase, FALSE>>][n][1]

\* the n-th results of the inverted and the plain stage split every record
Complementary(increase, n) ==
    LET inverted == outputs[<<increase, TRUE>>][n][2]
        plain == outputs[<<increase, FALSE>>][n][2]
    IN  /\ ~IsErr(inverted) /\ ~IsErr(plain)
        /\ Len(Val(inverted)) = Len(Val(plain))
        /\ \A i \in 1..Len(Val(inverted)) :
              DictKeys(Val(inverted)[i]) \cap DictKeys(Val(plain)[i]) = {}
        /\ PyEq(ListV(MergeRecords(Val(inverted), Val(plain))), dataset)

\* C11 as claimed: with the same fraction in [0, 1] and the same seed, the
\* invert=True and invert=False results on the same records select
\* complementary fields and merge back to the records, whatever the records
C11_ComplementaryAnyRecords ==
    \A increase \in BOOLEAN, n \in 1..MaxStageCalls :
        (BothCalled(increase, n) /\ InUnit(FractionOf(<<increase, TRUE>>)))
            => Complementary(increase, n)

\* C11 amended: with the same fraction in [0, 1] and the same seed, on records
\* that all have the first record's field names, the invert=True and the
\* invert=False results select complementary fields and merging them per
\* record index gives back the records, for either value of increase_seed
C11_Complementary ==
    \A increase \in BOOLEAN, n \in 1..MaxStageCalls :
        (/\ BothCalled(increase, n)
         /\ InUnit(FractionOf(<<increase, TRUE>>))
         /\ Homogeneous(dataset))
            => Complementary(increase, n)

\* both stages ran on two records of several fields and each kept some field
C11_Witness ==
    \E increase \in BOOLEAN :
        /\ BothCalled(increase, 1)
        /\ InUnit(FractionOf(<<increase, TRUE>>))
        /\ Homogeneous(dataset)
        /\ Len(Val(dataset)) = 2
        /\ ~IsErr(outputs[<<increase, TRUE>>][1][2])
        /\ ~IsErr(outputs[<<increase, FALSE>>][1][2])
        /\ DictKeys(Val(outputs[<<increase, TRUE>>][1][2])[1]) # {}
        /\ DictKeys(Val(outputs[<<increase, FALSE>>][1][2])[1]) # {}

\* number of fields of the first record handed to the stages
TotalFields == Cardinality(DictKeys(Val(dataset)[1]))

\* every call of every stage on records, for a fraction in [0, 1], returned
\* (when the records share their field names) records of as many fields as
\* expected(invert, total, fraction numerator)
FieldCounts(expected(_, _, _)) ==
    \A c \in StageKeys :
        \A n \in 1..Len(outputs[c]) :
            (Val(dataset) # <<>> /\ InUnit(FractionOf(c))) =>
                LET out == outputs[c][n][2]
                IN  /\ Homogeneous(dataset) => ~IsErr(out)
                    /\ ~IsErr(out) =>
                          \A i \in 1..Len(Val(out)) :
                              Cardinality(DictKeys(Val(out)[i]))
                                  = expected(c[2], TotalFields, Val(FractionOf(c)))

\* round(total * fraction), and round(total * (1 - fraction)) when inverted
RoundedOfComplement(invert, total, q) ==
    IF invert THEN RoundHalfEven((CountDen - q) * total, CountDen)
    ELSE RoundHalfEven(q * total, CountDen)

\* round(total * fraction), and total - round(total * fraction) when inverted
ComplementOfRounded(invert, total, q) ==
    IF invert THEN total - RoundHalfEven(q * total, CountDen)
    ELSE RoundHalfEven(q * total, CountDen)

SeedNow(c) == Val(DictGet(Val(stages[c])[3], StrV("random_seed")))
Returned(c, n) == Cardinality({m \in 1..n : ~IsErr(outputs[c][m][2])})

RECURSIVE SavedWith(_)
SavedWith(e) ==
    {e} \cup UNION {IF IsObject(Dependencies(e)[i]) THEN SavedWith(Dependencies(e)[i])
                    ELSE {} : i \in 1..Len(Dependencies(e))}

\* the file names <Kind>_<ID> the by-ID representation of e refers to
ReferencedFiles(e) ==
    LET rep == DictRep(e, "true")
    IN  CASE Tag(e) = "FeatureFilter" ->
                {<<"FeatureFilter", Val(DictGet(rep, StrV("subfilters")))[i]>> :
                    i \in 1..Len(Val(DictGet(rep, StrV("subfilters"))))}
          [] Tag(e) = "Classification" ->
                {<<"TestCaseCollection", DictGet(rep, StrV("tcc"))>>,
                 <<"FeatureExtractor", DictGet(rep, StrV("fe"))>>,
                 <<"FeatureFilter", DictGet(rep, StrV("ff"))>>}
          [] OTHER -> {}

\* C14: in every step of a save, for every owner (a FeatureFilter or
\* Classification among the entity and its dependencies): if the step opens
\* the owner's file, the by-ID representation of the owner can be made and
\* every <Kind>_<ID>.json it refers to has been written completely before; and
\* whenever the owner's file exists after the step, so does each of those files
C14_DependenciesFirst ==
    [][\A e \in SavedWith(subject) :
          (Tag(e) \in {"FeatureFilter", "Classification"} /\ ~IsErr(GetId(e))) =>
              /\ (/\ FileAt(files', SaveName(e)) = Truncated
                  /\ FileAt(files, SaveName(e)) # Truncated) =>
                     /\ ~IsErr(DictRep(e, "true"))
                     /\ \A name \in ReferencedFiles(e) :
                           Tag(FileAt(files, name)) = "json"
              /\ FileAt(files', SaveName(e)) # NoFile =>
                     /\ ~IsErr(DictRep(e, "true"))
                     /\ \A name \in ReferencedFiles(e) :
                           FileAt(files', name) # NoFile]_vars

\* the file of a stage whose subfilter has a subfilter has just been opened
C14_Witness ==
    /\ subject \in DeepFilters
    /\ saveState = "running"
    /\ FileAt(files, SaveName(subject)) = Truncated
    /\ \A e \in SavedWith(subject) \ {subject} : Tag(FileAt(files, SaveName(e))) = "json"

\* no file has been written into the save directory
NothingWritten == DOMAIN files = {}

\* C15: a save into a path that exists but is no directory fails with
\* FileExistsError ("not a directory"), a save into a missing path with
\* create=False fails with FileNotFoundError, and in both cases nothing is
\* written and the path stays as it was; the directory is created only by a
\* save with create=True into a missing path
C15_SaveDirChecked ==
    /\ [](saveState # "idle" =>
            /\ saveCall[2] = "file" =>
                  /\ NothingWritten /\ dirState = "file"
                  /\ saveState \in {"running", "FileExistsError"}
            /\ (saveCall[2] = "missing" /\ ~saveCall[1]) =>
                  /\ NothingWritten /\ dirState = "missing"
                  /\ saveState \in {"running", "FileNotFoundError"}
            /\ (saveCall[2] = "missing" /\ saveCall[1] /\ saveState # "running") =>
                  dirState = "dir")
    /\ [][dirState' # dirState =>
            /\ dirState = "missing" /\ dirState' = "dir"
            /\ saveCall = <<TRUE, "missing">>]_vars

\* a save with create=False into a missing path has failed, and so has a save
\* into a path that is a file
C15_Witness ==
    \/ /\ saveState = "FileNotFoundError" /\ saveCall = <<FALSE, "missing">>
       /\ Dependencies(subject) # <<>>
    \/ /\ saveState = "FileExistsError" /\ saveCall[2] = "file" /\ saveCall[1]
       /\ Dependencies(subject) # <<>>

\* ---- claims about constructed stages (SpecConstruct)

\* the stage and the stage objects among its subfilters, at any depth
RECURSIVE StagesOf(_)
StagesOf(ff) ==
    {ff} \cup UNION {IF IsObject(Val(ff)[4][i]) THEN StagesOf(Val(ff)[4][i]) ELSE {} :
                        i \in 1..Len(Val(ff)[4])}

\* C16: constructing a FeatureFilter, directly or through from_dict, with a
\* name that is none of the available stages raises ValueError and gives no
\* stage object; every stage object there is names an available stage, and so
\* does every stage filter() dispatches on
C16_UnknownStageRejected ==
    /\ ctor # None =>
          /\ ctor[1] \notin AvailableFilters => ctor[3] = Err("ValueError")
          /\ IsObject(ctor[3]) =>
                \A ff \in StagesOf(ctor[3]) : Val(ff)[1] \in AvailableFilters
    /\ ctorRun # None => ctorRun[1] \in AvailableFilters

\* an unknown name was refused through from_dict
C16_Witness ==
    /\ ctor # None
    /\ ctor[1] = "unknown"
    /\ ctor[2] = "from_dict"
    /\ ctor[3] = Err("ValueError")

\* ---- claims about Classifier.classify (SpecClassify)

\* C17: in the result of classify with base seed s, round i (from 0) records
\* random_seed s + i, its train_set is the equal sample of the collection
\* under that seed, and no two rounds have the same seed
C17_RoundsSeeded ==
    (classified[1] = "done" /\ ~IsErr(classified[3])) =>
        LET call == classified[2]
            rounds == Val(classified[3])
        IN  /\ \A i \in 1..Len(rounds) :
                  /\ Val(rounds[i])[3] = IntV(classifier + i - 1)
                  /\ Val(rounds[i])[1]
                        = ListV(get_equal_sample(Val(tcc)[1], call[2], call[3], call[4],
                                                 Val(Val(rounds[i])[3]), 0)[2])
            /\ \A i \in 1..Len(rounds), j \in 1..Len(rounds) :
                  i # j => Val(rounds[i])[3] # Val(rounds[j])[3]

\* ---- order of insertion (SpecSampler)

\* the collections holding the same test cases inserted in another order
Reordered(tcs) ==
    {[i \in 1..Len(tcs) |-> tcs[p[i]]] :
        p \in {q \in [1..Len(tcs) -> 1..Len(tcs)] :
                  \A i \in 1..Len(tcs), j \in 1..Len(tcs) : q[i] = q[j] => i = j}}

\* the labels of the metric in the order get_equal_sample first meets them
LabelOrder(tcs, metric) ==
    [i \in 1..Len(Categories(tcs, metric, <<>>)) |-> Categories(tcs, metric, <<>>)[i][1]]

SetOf(seq) == {seq[i] : i \in 1..Len(seq)}

\* C18: a collection of the same test cases inserted in another order, so that
\* the categories are first met in another order, gives with the same count,
\* fractional, metric and random_seed the same outcome and the same set of IDs
C18_OrderIndependent ==
    pinned # NoCall =>
        \A other \in Reordered(Val(tcc)[1]) :
            LabelOrder(other, pinned[1][3]) # LabelOrder(Val(tcc)[1], pinned[1][3]) =>
                LET r == get_equal_sample(other, pinned[1][1], pinned[1][2], pinned[1][3],
                                          pinned[1][4], globalRandom)
                IN  /\ r[1] = pinned[2][1]
                    /\ SetOf(r[2]) = SetOf(pinned[2][2])

\* ---- failed extractions (SpecCache)

\* C19: an extract whose extractor execution raises gives the caller that
\* exception and leaves self.features as it was, without an entry for the pair
\* and without a new namespace for the config ID; an extract of the same test
\* case afterwards executes the extractor again
C19_FailureUncached ==
    [][(lastExtract' # NoExtract /\ lastExtract'[3] /\ IsErr(lastExtract'[4])) =>
          /\ lastExtract'[4] \in ExecOutcomes
          /\ Val(fe')[2] = Val(fe)[2]
          /\ ~IsCached(fe', lastExtract'[2], lastExtract'[1])
          /\ \A o \in ExecOutcomes :
                extract(fe', lastExtract'[1], dims[lastExtract'[1]], o)[3]]_vars

\* an extraction has failed on an extractor that holds features of another
\* test case and none under the failed call's config ID
C19_Witness ==
    /\ lastExtract # NoExtract
    /\ lastExtract[3]
    /\ IsErr(lastExtract[4])
    /\ Val(Val(fe)[2]) # <<>>
    /\ ~DictHas(Val(fe)[2], lastExtract[2])

\* ---- claims about from_csv (SpecCsv)

\* the test cases of the valid lines, in file order
ValidCases(lines) ==
    LET valid == SelectSeq(lines, LAMBDA line : ~IsErr(RowCase(line)))
    IN  [i \in 1..Len(valid) |-> RowCase(valid[i])]

\* the exception of the first invalid line, None when every line is valid
FirstInvalid(lines) ==
    LET bad == SelectSeq(lines, LAMBDA line : IsErr(RowCase(line)))
    IN  IF bad = <<>> THEN None ELSE RowCase(bad[1])

\* C20: from_csv with skip_invalid=True completes whatever lines are invalid
\* and gives the collection of exactly the valid lines' test cases with their
\* own labels; with skip_invalid=False it raises the first invalid line's
\* exception when there is one
C20_SkipInvalid ==
    csvLoad[1] = "done" =>
        IF csvLoad[2] \/ FirstInvalid(csvFile) = None
        THEN csvLoad[3] = NewTestCaseCollection(ValidCases(csvFile), <<>>)
        ELSE csvLoad[3] = FirstInvalid(csvFile)

\* ---- the adaptive 2D axis and the cache key (SpecCache)

\* the force2Ddimension written in a configuration
DimensionIn(config) == DictGet(DictGet(config, StrV("setting")), StrV("force2Ddimension"))

\* extract calls that ran with force2D_adaptive_axis on and force2D set
Adapted == {x \in resolved : x[4]}

\* C21: with force2D_adaptive_axis on and force2D set, the config ID extract
\* looks up and stores under is the ID of the configuration that already
\* holds the test case's own force2Ddimension; test cases whose dimension
\* differs get different config IDs; and a value extract returns from the
\* cache was computed under the settings that are in effect at the hit.
C21_ResolvedConfigId ==
    /\ \A x \in Adapted :
          /\ x[1] = hexdigest(json_dumps(x[5], TRUE))
          /\ DimensionIn(x[5]) = IntV(dims[x[2]])
    /\ \A x \in Adapted, y \in Adapted :
          dims[x[2]] # dims[y[2]] => x[1] # y[1]
    /\ \A x \in Adapted :
          ~x[3] =>
             /\ \E y \in resolved : y[3] /\ y[1] = x[1] /\ y[2] = x[2]
             /\ \A y \in resolved :
                   (y[3] /\ y[1] = x[1] /\ y[2] = x[2])
                      => LoadedSettings(y[5]) = LoadedSettings(x[5])

\* two test cases of different slice dimension were extracted adaptively and
\* one of them was then answered from the cache
C21_Witness ==
    /\ \E x \in Adapted, y \in Adapted : x[3] /\ y[3] /\ dims[x[2]] # dims[y[2]]
    /\ \E x \in Adapted : ~x[3]

\* ---- the complement of a selection (SpecComplement)

\* the keys of the collection, in collection order
KeysOfCollection == [i \in 1..Len(Val(tcc)[1]) |-> Val(Val(tcc)[1][i])[1]]

\* C22: for every list of IDs, repeated or foreign IDs included, get_all_but
\* returns the keys of the collection that do not occur in the list, in
\* collection order
C22_SetDifference ==
    complement[1] = "done" =>
        /\ ~IsErr(complement[3])
        /\ Val(complement[3]) =
              SelectSeq(KeysOfCollection,
                        LAMBDA key : \A j \in 1..Len(complement[2]) :
                                        complement[2][j] # key)

\* ---- conversion of extractor results (SpecConvert)

\* plain numbers, strings, booleans, null, lists and string-keyed mappings
RECURSIVE IsPlainJson(_)
IsPlainJson(v) ==
    CASE Tag(v) \in {"int", "float", "str", "bool", "null"} -> TRUE
      [] Tag(v) = "list" -> \A i \in 1..Len(Val(v)) : IsPlainJson(Val(v)[i])
      [] Tag(v) = "dict" ->
            \A i \in 1..Len(Val(v)) :
                Tag(Val(v)[i][1]) = "str" /\ IsPlainJson(Val(v)[i][2])
      [] OTHER -> FALSE

\* C23: whatever nested value the extractor returned, denumpyify gives a
\* value of plain JSON kinds only, and denumpyify of that value is the value
C23_PlainJson ==
    jsonValue[1] = "done" =>
        /\ IsPlainJson(jsonValue[2])
        /\ denumpyify(jsonValue[2]) = jsonValue[2]

\* ---- merging of subfilter results (SpecSubfilter)

\* what the k-th subfilter of the stage returns for the features given to
\* execute_subfilters, called on its own
OwnOutput(k) == filter(Val(merged[6])[4][k], merged[2], hashOrder)[1]

\* record r of the merge: every field some subfilter returned in record r,
\* with the value the last subfilter returning it gave
MergedRecord(r) ==
    LET n == Len(Val(merged[6])[4])
        has(k, key) == DictHas(Val(OwnOutput(k))[r], key)
        last(key) == CHOOSE k \in 1..n : has(k, key) /\ \A j \in (k + 1)..n : ~has(j, key)
    IN  {<<key, DictGet(Val(OwnOutput(last(key)))[r], key)>> :
            key \in UNION {DictKeys(Val(OwnOutput(k))[r]) : k \in 1..n}}

\* C24: without subfilters execute_subfilters returns its input; otherwise
\* every subfilter is given features with the content of the original input,
\* and each record of the result holds the union of the fields the subfilters
\* returned for it, a later subfilter's value taking the place of an earlier one
C24_SubfilterMerge ==
    merged[1] = "done" =>
        IF Val(merged[6])[4] = <<>>
        THEN merged[3] = merged[2] /\ merged[4] = merged[2]
        ELSE ~IsErr(merged[3]) =>
               /\ \A k \in 1..Len(merged[5]) : merged[5][k] = merged[2]
               /\ Len(Val(merged[3])) = Len(Val(merged[2]))
               /\ \A r \in 1..Len(Val(merged[3])) :
                     AsMapping(Val(merged[3])[r]) = MergedRecord(r)

\* two subfilters returned, and in some record the merge holds more fields
\* than either of them gave
C24_Witness ==
    /\ merged[1] = "done"
    /\ Len(Val(merged[6])[4]) = 2
    /\ ~IsErr(merged[3])
    /\ \E r \in 1..Len(Val(merged[3])) :
          \A k \in 1..2 :
             DictKeys(Val(merged[3])[r]) # DictKeys(Val(OwnOutput(k))[r])

\* ---- the sets of a classification round (SpecClassify)

\* the IDs of the collection that carry a label for the metric
Labelled(metric) ==
    {Val(Val(tcc)[1][i])[1] :
        i \in {j \in 1..Len(Val(tcc)[1]) : Tag(CategoryOf(Val(tcc)[1][j], metric)) # "null"}}

\* C25: in every round classify records, train_set and test_set share no ID,
\* test_set holds exactly the labelled IDs of the collection that are not in
\* train_set, neither holds an unlabelled ID, and the collection is the one
\* classify was given
C25_RoundSets ==
    [][(classified'[1] = "done" /\ ~IsErr(classified'[3])) =>
          /\ tcc' = tcc
          /\ \A n \in 1..Len(Val(classified'[3])) :
                LET round == Val(Val(classified'[3])[n])
                    train_set == SetOf(Val(round[1]))
                    test_set == SetOf(Val(round[2]))
                    metric == classified'[2][4]
                IN  /\ train_set \cap test_set = {}
                    /\ train_set \subseteq Labelled(metric)
                    /\ test_set = Labelled(metric) \ train_set]_vars

\* a round was recorded on a collection with an unlabelled test case, with
\* both sets non-empty
C25_Witness ==
    /\ classified[1] = "done"
    /\ ~IsErr(classified[3])
    /\ Len(Val(classified[3])) >= 1
    /\ Labelled(classified[2][4]) # SetOf(KeysOfCollection)
    /\ Val(Val(Val(classified[3])[1])[1]) # <<>>
    /\ Val(Val(Val(classified[3])[1])[2]) # <<>>

\* ---- concurrent first saves (SpecSaver)

DirectoryErrors == {"FileExistsError", "FileNotFoundError"}

\* C26: the existence check and the creation of save_dir are separate steps.
\* A saver into a directory that was missing ends with FileExistsError only
\* when it saw the directory missing, was to create it, and another saver
\* created it in between; it has then opened no file.  The directory is
\* created by one saver at most.  When the directory exists before the
\* savers start, no save fails in the directory check.
C26_DirectoryRace ==
    /\ dirBefore = "dir" =>
          \A p \in DOMAIN savers : savers[p].state \notin DirectoryErrors
    /\ \A p \in DOMAIN savers :
          (dirBefore = "missing" /\ savers[p].state = "FileExistsError") =>
             /\ savers[p].sawMissing
             /\ savers[p].create
             /\ ~savers[p].made
             /\ savers[p].opened = 0
             /\ \E q \in DOMAIN savers \ {p} : savers[q].made
    /\ Cardinality({p \in DOMAIN savers : savers[p].made}) <= 1

\* both savers saw the directory missing; one created it and saved, the
\* other's creation failed and it wrote nothing
C26_Witness ==
    \E p \in DOMAIN savers, q \in DOMAIN savers :
        /\ p # q
        /\ savers[p].sawMissing /\ savers[q].sawMissing
        /\ savers[p].state = "FileExistsError"
        /\ savers[p].opened = 0
        /\ savers[q].state = "done"

\* ---- the importance threshold (SpecConstruct)

\* the items of a record the importance_threshold stage is to keep: those
\* without an importance and those on the kept side of the threshold
KeptByImportance(record, importances, threshold, invert) ==
    {item \in AsMapping(record) :
        \/ ~DictHas(importances, item[1])
        \/ (Val(DictGet(importances, item[1])) >= Val(threshold)) # invert}

\* C27: an importance_threshold stage returns, for records, importances and a
\* threshold of any kind (importances of fields the records lack included),
\* records holding exactly the fields to keep, and leaves its input as it was
C27_ImportanceThreshold ==
    [][(/\ ctorRun[1] = "null"
        /\ ctorRun'[1] = "importance_threshold"
        /\ Val(ctor[3])[4] = <<>>
        /\ Len(Val(ctor[3])[2]) = 2) =>
          /\ ~IsErr(ctorRun'[2])
          /\ dataset' = dataset
          /\ Len(Val(ctorRun'[2])) = Len(Val(dataset))
          /\ \A r \in 1..Len(Val(dataset)) :
                AsMapping(Val(ctorRun'[2])[r]) =
                   KeptByImportance(Val(dataset)[r], Val(ctor[3])[2][1], Val(ctor[3])[2][2],
                                    Truthy(KwOr(Val(ctor[3])[3], "invert", BoolV(FALSE))))]_vars

\* ---- misuse of get_equal_sample (SpecSampler)

\* C28: on every collection, one that is empty or has no test case labelled
\* for the metric included, get_equal_sample raises an error for an
\* unrecognised metric, ValueError for a fractional count outside [0, 1] and
\* TypeError for an absolute count that is not a whole number, and selects
\* nothing
C28_MisuseRejected ==
    [][(pinned = NoCall /\ pinned' # NoCall) =>
          LET count == pinned'[1][1]
              fractional == pinned'[1][2]
              metric == pinned'[1][3]
              status == pinned'[2][1]
          IN  /\ metric \notin {"pcr", "nar"} => status = "ValueError"
              /\ (/\ metric \in {"pcr", "nar"}
                  /\ fractional
                  /\ (CountBelowZero(count) \/ CountAboveOne(count)))
                    => status = "ValueError"
              /\ (/\ metric \in {"pcr", "nar"}
                  /\ ~fractional
                  /\ Tag(count) = "float"
                  /\ Val(count) % CountDen # 0)
                    => status = "TypeError"
              /\ status # "ok" => pinned'[2][2] = <<>> /\ pinned'[2][3] = 0]_vars

\* ---- the columns of a round (SpecRound)

\* the feature columns of filtered features: the fields of the first record
ColumnsOf(features) == DictKeys(Val(features)[1])

\* C29: in every round the train features and the test features are
\* filtered to the same columns, and every round uses the columns the first
\* filter call of the first round selected
C29_SameColumns ==
    (roundLog[1] = "done" /\ ~IsErr(roundLog[3])) =>
        \A n \in 1..Len(Val(roundLog[3])) :
            /\ ColumnsOf(Val(roundLog[3])[n][1]) = ColumnsOf(Val(roundLog[3])[n][2])
            /\ ColumnsOf(Val(roundLog[3])[n][1]) = ColumnsOf(Val(roundLog[3])[1][1])

\* ---- the files of the save directory (SpecStore)

\* C30: once a save call has ended, with or without an exception, every
\* file <ClassName>_<ID>.json of the save directory holds a complete JSON
\* document whose hash is the ID of its name; no file is left empty.
C30_FilesComplete ==
    saveState \notin {"idle", "running"} =>
        \A name \in DOMAIN files :
            /\ Tag(files[name]) = "json"
            /\ hexdigest(files[name]) = name[2]

====
